---- MODULE Spec2Model ----
(***************************************************************************)
(* Model of the timing-and-parameter core: the one-pole smoothing engine   *)
(* (smooth.rs), the Param / Handle pair around a shared atomic float       *)
(* (parameter.rs) and the packed atomic time cell (atomic/atomic_time.rs). *)
(*                                                                         *)
(* f32 values are integers counting units of 2^-20, and every arithmetic   *)
(* operation rounds its exact result to the nearest value with a 24-bit    *)
(* significand, ties to even, as IEEE-754 binary32 does.  Smoothed values  *)
(* are drawn just below 128.0, where one ulp is 2^-17 = 8 units; the       *)
(* coefficients a and b are multiples of 1/8, counted in eighths.          *)
(* Normalized values, exponents and logarithms are small dyadic numbers,   *)
(* counted in sixteenths; NaN and the infinities are three values apart    *)
(* from every number.                                                      *)
(***************************************************************************)
EXTENDS Integers, Sequences, FiniteSets, TLC

VARIABLES
    smoothed,   \* the SmoothF32: [output, input, status, a, b, last_output]
    panicked,   \* TRUE once an operation has panicked (index out of range)
    last_op,    \* the last operation: [op, arg, from], from = status before it
    ramp,       \* one ramp scenario: [pc, v0], v0 = the value held before set()
    param,      \* the ParamF32 without its smoother:
                \* [min, max, gradient, unit, normalized, value]
    handle,     \* the ParamF32Handle: [min, max, gradient, unit, normalized, value]
    shared_normalized,  \* the AtomicF32 shared by the Param and its Handle
    call,       \* the smoothed() call in flight: [pc, new_normalized, clean]
    stores,     \* [last, dirty]: the value of the latest store into the shared
                \* cell, and whether the cell changed since the last load
    atomic,     \* an atomic time cell: [kind, endian, word], word the AtomicU64
    observed,   \* [written, op, time]: the times stored into the cell as a
                \* whole, and the time the last get() or swap() returned
    calc        \* one call of a function of the time types: [fn, ...], its
                \* arguments and its result

paramVars == <<param, handle, shared_normalized, call, stores>>

timeVars == <<atomic, observed>>

vars == <<smoothed, panicked, last_op, ramp, param, handle,
          shared_normalized, call, stores, atomic, observed, calc>>

(***************************************************************************)
(* Bounds of the model.                                                    *)
(***************************************************************************)
\* Capacity of the output block (the const generic MAX_BLOCKSIZE).
MAX_BLOCKSIZE == 2
\* Smoothed values are 128.0 - k ulp for k in 0..MaxUlps.
MaxUlps == 3

(***************************************************************************)
(* f32 arithmetic.                                                         *)
(***************************************************************************)
\* Number of significand bits of an f32.
MANTISSA_DIGITS == 24
\* 1.0 in units (one unit is 2^-20).
F32One == 2^20
\* 1.0 as a coefficient (coefficients are counted in eighths).
CoefOne == 2^3

Abs(x) == IF x < 0 THEN -x ELSE x

Min(x, y) == IF x <= y THEN x ELSE y

\* Spacing of the f32 values around m units: 1 unit below 2^24 units, then
\* doubling with every binade.
RECURSIVE Quantum(_)
Quantum(m) == IF m < 2^MANTISSA_DIGITS THEN 1 ELSE 2 * Quantum(m \div 2)

\* The f32 nearest to the exact quotient n / d (d > 0), ties to even.
RoundF32(n, d) ==
    LET s    == IF n < 0 THEN -1 ELSE 1
        m    == s * n
        q    == Quantum(m \div d)
        step == d * q
        k    == m \div step
        r    == m - k * step
        up   == \/ 2 * r > step
                \/ (2 * r = step /\ k % 2 = 1)
    IN  s * q * (IF up THEN k + 1 ELSE k)

\* x + y and x - y on f32.
F32Add(x, y) == RoundF32(x + y, 1)

F32Sub(x, y) == RoundF32(x - y, 1)

\* x * c on f32, c a coefficient in eighths.
F32MulCoef(x, c) == RoundF32(x * c, CoefOne)

\* 1.0 as a small number (small numbers are counted in sixteenths).
NormOne == 2^4

\* f32::NAN, f32::INFINITY and f32::NEG_INFINITY.
NAN == 2^30 + 1

INFINITY == 2^30

NEG_INFINITY == 0 - 2^30

IsFinite(x) == x \notin {NAN, INFINITY, NEG_INFINITY}

Max(x, y) == IF x >= y THEN x ELSE y

\* Comparisons: every comparison with NaN is false, but != is true.
F32Ne(x, y) == x = NAN \/ y = NAN \/ x # y

F32Le(x, y) == x # NAN /\ y # NAN /\ x <= y

F32Ge(x, y) == x # NAN /\ y # NAN /\ x >= y

\* f32::min and f32::max return the other operand when one is NaN.
F32Min(x, y) == IF x = NAN THEN y ELSE IF y = NAN THEN x ELSE Min(x, y)

F32Max(x, y) == IF x = NAN THEN y ELSE IF y = NAN THEN x ELSE Max(x, y)

\* f32::clamp keeps NaN.
F32Clamp(x, lo, hi) ==
    IF x = NAN THEN NAN ELSE IF x < lo THEN lo ELSE IF x > hi THEN hi ELSE x

\* x + y, x - y, x * y and x / y on small numbers, with the IEEE-754 rules
\* for the infinities and NaN.
Sign(x) == IF x < 0 THEN -1 ELSE IF x > 0 THEN 1 ELSE 0

SmallAdd(x, y) ==
    CASE x = NAN \/ y = NAN -> NAN
      [] IsFinite(x) /\ IsFinite(y) -> x + y
      [] IsFinite(x) -> y
      [] IsFinite(y) -> x
      [] OTHER -> IF x = y THEN x ELSE NAN

SmallNeg(x) ==
    CASE x = NAN -> NAN
      [] x = INFINITY -> NEG_INFINITY
      [] x = NEG_INFINITY -> INFINITY
      [] OTHER -> -x

SmallSub(x, y) == SmallAdd(x, SmallNeg(y))

SmallMul(x, y) ==
    CASE x = NAN \/ y = NAN -> NAN
      [] IsFinite(x) /\ IsFinite(y) -> RoundF32(x * y, NormOne)
      [] x = 0 \/ y = 0 -> NAN
      [] OTHER -> IF Sign(x) = Sign(y) THEN INFINITY ELSE NEG_INFINITY

SmallDiv(x, y) ==
    CASE x = NAN \/ y = NAN -> NAN
      [] IsFinite(x) /\ IsFinite(y) ->
            IF y # 0 THEN Sign(y) * RoundF32(x * NormOne, Abs(y))
            ELSE IF x = 0 THEN NAN
            ELSE IF x > 0 THEN INFINITY ELSE NEG_INFINITY
      [] IsFinite(x) -> 0
      [] IsFinite(y) -> IF y >= 0 THEN x ELSE SmallNeg(x)
      [] OTHER -> NAN

\* f32::log2 and 2.0f32.powf on the values the parameters below use: the
\* five f32 values nearest to 2^6, 2^6.25, 2^6.5, 2^6.75 and 2^7, on which
\* log2 returns exactly 6, 6.25, 6.5, 6.75 and 7.
Exp2Table ==
    (6 * NormOne :> 64 * F32One) @@
    (6 * NormOne + 4 :> 79806336) @@
    (6 * NormOne + 8 :> 94906264) @@
    (6 * NormOne + 12 :> 112863208) @@
    (7 * NormOne :> 128 * F32One)

log2(x) ==
    CASE x = NAN -> NAN
      [] x = INFINITY -> INFINITY
      [] x < 0 -> NAN
      [] x = 0 -> NEG_INFINITY
      [] OTHER -> CHOOSE y \in DOMAIN Exp2Table : Exp2Table[y] = x

exp2(y) ==
    CASE y = NAN -> NAN
      [] y = INFINITY -> INFINITY
      [] y = NEG_INFINITY -> 0
      [] OTHER -> Exp2Table[y]

\* x.powf(e) on small numbers, for e = 2 (the square of a multiple of 1/4)
\* and e = 1/2 (the root of a square).
powf(x, e) ==
    CASE e = 2 * NormOne -> RoundF32(x * x, NormOne)
      [] e = NormOne \div 2 ->
            CHOOSE r \in 0 .. (2 * NormOne) : r * r = x * NormOne

(***************************************************************************)
(* ProcFrames (time.rs).                                                   *)
(***************************************************************************)
ProcFrames_new(frames) == Min(frames, MAX_BLOCKSIZE)

ProcFrames_from(s) == s

\* compiler_hint_frames without its min() check.
compiler_hint_frames_unclamped(pf) == pf

compiler_hint_frames(pf) == Min(pf, MAX_BLOCKSIZE)

(***************************************************************************)
(* SmoothF32 (smooth.rs).                                                  *)
(***************************************************************************)
\* SETTLE = 0.00001f32 = 1 / SETTLE_RECIP.
SETTLE_RECIP == 100000

\* |d| < SETTLE for a difference d in units: d / 2^20 < 1 / 100000.
\* No multiple of 2^-20 lies between 0.00001f32 and 1 / 100000.
SETTLE == (F32One + SETTLE_RECIP - 1) \div SETTLE_RECIP

Index == 0 .. (MAX_BLOCKSIZE - 1)

SmoothF32_new(input) ==
    [ status      |-> "Inactive",
      input       |-> input,
      output      |-> [i \in Index |-> input],
      a           |-> CoefOne,
      b           |-> 0,
      last_output |-> input ]

\* reset that forgets to carry the coefficients over.
reset_forgets_speed(s, val) == SmoothF32_new(val)

reset(s, val) == [SmoothF32_new(val) EXCEPT !.a = s.a, !.b = s.b]

set(s, val) == [s EXCEPT !.input = val, !.status = "Active"]

\* update_status_with_epsilon that goes idle at once when settled.
update_status_with_epsilon_skip(s, epsilon) ==
    CASE s.status = "Active" ->
            IF Abs(F32Sub(s.input, s.output[0])) < epsilon
            THEN reset(s, s.input)
            ELSE s
      [] s.status = "Deactivating" -> [s EXCEPT !.status = "Inactive"]
      [] OTHER -> s

\* update_status_with_epsilon that leaves the ramp where it is when settled.
update_status_with_epsilon_no_snap(s, epsilon) ==
    CASE s.status = "Active" ->
            IF Abs(F32Sub(s.input, s.output[0])) < epsilon
            THEN [s EXCEPT !.status = "Deactivating"]
            ELSE s
      [] s.status = "Deactivating" -> [s EXCEPT !.status = "Inactive"]
      [] OTHER -> s

update_status_with_epsilon(s, epsilon) ==
    CASE s.status = "Active" ->
            IF Abs(F32Sub(s.input, s.output[0])) < epsilon
            THEN [reset(s, s.input) EXCEPT !.status = "Deactivating"]
            ELSE s
      [] s.status = "Deactivating" -> [s EXCEPT !.status = "Inactive"]
      [] OTHER -> s

update_status(s) == update_status_with_epsilon(s, SETTLE)

\* The loop of process: output[i] for i in from .. frames - 1.
RECURSIVE ProcessLoop(_, _, _, _, _)
ProcessLoop(out, input, b, i, frames) ==
    IF i >= frames \/ i \notin Index
    THEN out
    ELSE ProcessLoop([out EXCEPT ![i] = F32Add(input, F32MulCoef(out[i - 1], b))],
                     input, b, i + 1, frames)

\* process without the early return for a smoother that is not Active.
process_always(s, proc_frames) ==
    LET frames == compiler_hint_frames(proc_frames)
        input  == F32MulCoef(s.input, s.a)
        out0   == [s.output EXCEPT
                     ![0] = F32Add(input, F32MulCoef(s.last_output, s.b))]
        out    == ProcessLoop(out0, input, s.b, 1, frames)
    IN  IF frames - 1 \in Index
        THEN [s EXCEPT !.output = out, !.last_output = out[frames - 1]]
        ELSE [s EXCEPT !.output = out]

\* process that does not carry the last sample over to the next block.
process_drops_last(s, proc_frames) ==
    IF s.status # "Active"
    THEN s
    ELSE LET frames == compiler_hint_frames(proc_frames)
             input  == F32MulCoef(s.input, s.a)
             out0   == [s.output EXCEPT
                          ![0] = F32Add(input, F32MulCoef(s.last_output, s.b))]
         IN  [s EXCEPT !.output = ProcessLoop(out0, input, s.b, 1, frames)]

\* process() indexes output[1 .. frames - 1] and then output[frames - 1]:
\* with frames = 0 the subtraction underflows, and an index >= MAX_BLOCKSIZE
\* is out of range; both panic.
process_panics(s, proc_frames) ==
    LET frames == compiler_hint_frames(proc_frames)
    IN  /\ s.status = "Active"
        /\ (frames = 0 \/ frames > MAX_BLOCKSIZE)

\* The smoother process() leaves behind (when it panics: the writes made
\* before the panic).
process(s, proc_frames) ==
    IF s.status # "Active"
    THEN s
    ELSE LET frames == compiler_hint_frames(proc_frames)
             input  == F32MulCoef(s.input, s.a)
             out0   == [s.output EXCEPT
                          ![0] = F32Add(input, F32MulCoef(s.last_output, s.b))]
             out    == ProcessLoop(out0, input, s.b, 1, frames)
         IN  IF frames - 1 \in Index
             THEN [s EXCEPT !.output = out, !.last_output = out[frames - 1]]
             ELSE [s EXCEPT !.output = out]

is_active(s) == s.status # "Inactive"

\* set_speed(sample_rate, seconds): b = exp(-1 / (seconds * sample_rate)) and
\* a = 1 - b.  The inputs are the eight pairs, numbered k = 0 .. 7, for which
\* b is exactly k / 8: seconds = 0 for k = 0, and at sample_rate = 48000
\* seconds = 1.00187153e-05, 1.5028073e-05, 2.12405303e-05, 3.0056146e-05,
\* 4.43258978e-05, 7.24179044e-05, 0.000156018214 for k = 1 .. 7.
set_speed(s, k) == [s EXCEPT !.b = k, !.a = CoefOne - k]

(***************************************************************************)
(* AtomicF32 and the decibel conversion.                                   *)
(***************************************************************************)
\* The cell holds one f32; get and set are each one atomic access.
AtomicF32_new(v) == v

AtomicF32_get(cell) == cell

AtomicF32_set(cell, v) == v

\* 10^(0.05 * db) on the f32 values 38.0 .. 42.0.
CoeffTable ==
    (38 * F32One :> 83291344) @@
    (39 * F32One :> 93454448) @@
    (40 * F32One :> 104857600) @@
    (41 * F32One :> 117652152) @@
    (42 * F32One :> 132007944)

db_to_coeff_clamped_neg_90_db_f32(db) ==
    IF db < (0 - 90) * F32One THEN 0 ELSE CoeffTable[db]

(***************************************************************************)
(* ParamF32 and ParamF32Handle (parameter.rs).                             *)
(***************************************************************************)
normalized_to_value_f32(n, min, max, gradient) ==
    LET normalized == F32Max(F32Min(n, NormOne), 0)
        map(x) == LET range == F32Sub(max, min)
                  IN  F32Add(RoundF32(x * range, NormOne), min)
    IN  CASE gradient.kind = "Linear" -> map(normalized)
          [] gradient.kind = "Power" -> map(powf(normalized, gradient.exponent))
          [] gradient.kind = "Exponential" ->
                IF normalized = 0 THEN min
                ELSE IF normalized = NormOne THEN max
                ELSE LET minl  == log2(min)
                         range == SmallSub(log2(max), minl)
                     IN  exp2(SmallAdd(SmallMul(normalized, range), minl))

value_to_normalized_f32(value, min, max, gradient) ==
    LET unmap(x) == LET range == F32Sub(max, min)
                    IN  RoundF32(F32Sub(x, min) * NormOne, range)
    IN  IF F32Le(value, min) THEN 0
        ELSE IF F32Ge(value, max) THEN NormOne
        ELSE CASE gradient.kind = "Linear" -> unmap(value)
               [] gradient.kind = "Power" ->
                     powf(unmap(value), SmallDiv(NormOne, gradient.exponent))
               [] gradient.kind = "Exponential" ->
                     LET minl  == log2(min)
                         range == SmallSub(log2(max), minl)
                     IN  SmallDiv(SmallSub(log2(value), minl), range)

\* The value the realtime side smooths: the mapped value, converted from
\* decibels when the unit says so.
rt_value(v, unit) ==
    IF unit = "Decibels" THEN db_to_coeff_clamped_neg_90_db_f32(v) ELSE v

\* A constructor that hands the Handle a Generic unit whatever the Param's.
Construct_generic_handle(normalized, min, max, gradient, unit, speed) ==
    LET handle_value == normalized_to_value_f32(normalized, min, max, gradient)
        fields == [min |-> min, max |-> max, gradient |-> gradient,
                   unit |-> unit, normalized |-> normalized]
    IN  [ shared   |-> AtomicF32_new(normalized),
          smoothed |-> set_speed(SmoothF32_new(rt_value(handle_value, unit)),
                                 speed),
          param    |-> fields @@ [value |-> rt_value(handle_value, unit)],
          handle   |-> [fields EXCEPT !.unit = "Generic"]
                          @@ [value |-> handle_value] ]

\* The (Param, Handle) pair, the shared cell and the smoother that the two
\* constructors build from a normalized value.
Construct(normalized, min, max, gradient, unit, speed) ==
    LET handle_value == normalized_to_value_f32(normalized, min, max, gradient)
        fields == [min |-> min, max |-> max, gradient |-> gradient,
                   unit |-> unit, normalized |-> normalized]
    IN  [ shared   |-> AtomicF32_new(normalized),
          smoothed |-> set_speed(SmoothF32_new(rt_value(handle_value, unit)),
                                 speed),
          param    |-> fields @@ [value |-> rt_value(handle_value, unit)],
          handle   |-> fields @@ [value |-> handle_value] ]

from_value(value, min, max, gradient, unit, speed) ==
    Construct(value_to_normalized_f32(value, min, max, gradient),
              min, max, gradient, unit, speed)

from_normalized(normalized, min, max, gradient, unit, speed) ==
    Construct(F32Clamp(normalized, 0, NormOne), min, max, gradient, unit, speed)

\* A load that returns the cached value instead of reading the cell.
smoothed_load_cached(p, cell) == p.normalized

\* The load that opens ParamF32::smoothed.
smoothed_load(p, cell) == AtomicF32_get(cell)

\* smoothed(frames) that calls set() whether or not the value changed.
ParamF32_smoothed_always_sets(p, s, new_normalized, frames) ==
    LET value == rt_value(normalized_to_value_f32(new_normalized, p.min,
                                                  p.max, p.gradient),
                          p.unit)
        s1    == set(s, value)
        pf    == ProcFrames_from(frames)
    IN  [ param    |-> [p EXCEPT !.normalized = new_normalized,
                                 !.value = value],
          smoothed |-> IF process_panics(s1, pf) THEN process(s1, pf)
                       ELSE update_status(process(s1, pf)),
          panics   |-> process_panics(s1, pf) ]

\* smoothed(frames) that calls set() on a change but does not remember the
\* value it loaded.
ParamF32_smoothed_forgets(p, s, new_normalized, frames) ==
    LET changed == F32Ne(p.normalized, new_normalized)
        value   == rt_value(normalized_to_value_f32(new_normalized, p.min,
                                                    p.max, p.gradient),
                            p.unit)
        s1      == IF changed THEN set(s, value) ELSE s
        pf      == ProcFrames_from(frames)
    IN  [ param    |-> p,
          smoothed |-> IF process_panics(s1, pf) THEN process(s1, pf)
                       ELSE update_status(process(s1, pf)),
          panics   |-> process_panics(s1, pf) ]

\* The rest of ParamF32::smoothed(frames), given the value it loaded.
ParamF32_smoothed(p, s, new_normalized, frames) ==
    LET changed == F32Ne(p.normalized, new_normalized)
        value   == rt_value(normalized_to_value_f32(new_normalized, p.min,
                                                    p.max, p.gradient),
                            p.unit)
        p1      == IF changed
                   THEN [p EXCEPT !.normalized = new_normalized,
                                  !.value = value]
                   ELSE p
        s1      == IF changed THEN set(s, value) ELSE s
        pf      == ProcFrames_from(frames)
        panics  == process_panics(s1, pf)
    IN  [ param    |-> p1,
          smoothed |-> IF panics THEN process(s1, pf)
                       ELSE update_status(process(s1, pf)),
          panics   |-> panics ]

\* ParamF32Handle::set_normalized and set_value: the handle and the cell
\* they leave, and whether they stored into the cell.
\* set_normalized that stores its argument as given, before the clamp.
set_normalized_stores_unclamped(h, cell, normalized) ==
    IF F32Ne(h.normalized, normalized)
    THEN LET n == F32Clamp(normalized, 0, NormOne)
         IN  [ handle |-> [h EXCEPT
                             !.normalized = n,
                             !.value = normalized_to_value_f32(n, h.min, h.max,
                                                               h.gradient)],
               shared |-> AtomicF32_set(cell, normalized),
               stored |-> TRUE ]
    ELSE [handle |-> h, shared |-> cell, stored |-> FALSE]

set_normalized(h, cell, normalized) ==
    IF F32Ne(h.normalized, normalized)
    THEN LET n == F32Clamp(normalized, 0, NormOne)
         IN  [ handle |-> [h EXCEPT
                             !.normalized = n,
                             !.value = normalized_to_value_f32(n, h.min, h.max,
                                                               h.gradient)],
               shared |-> AtomicF32_set(cell, n),
               stored |-> TRUE ]
    ELSE [handle |-> h, shared |-> cell, stored |-> FALSE]

set_value(h, cell, value) ==
    IF F32Ne(h.value, value)
    THEN LET n == value_to_normalized_f32(value, h.min, h.max, h.gradient)
         IN  [ handle |-> [h EXCEPT
                             !.normalized = n,
                             !.value = normalized_to_value_f32(n, h.min, h.max,
                                                               h.gradient)],
               shared |-> AtomicF32_set(cell, n),
               stored |-> TRUE ]
    ELSE [handle |-> h, shared |-> cell, stored |-> FALSE]

(***************************************************************************)
(* Inputs.                                                                 *)
(***************************************************************************)
Ulp == 2^3

Top == 128 * F32One

Values == { Top - k * Ulp : k \in 0 .. MaxUlps }

Speeds == {0, 3, 6}

FrameCounts == 0 .. (MAX_BLOCKSIZE + 1)

Op(op, arg) == [op |-> op, arg |-> arg, from |-> smoothed.status]

\* The smoother on its own: no Param, no Handle, no shared cell.
NoParam ==
    /\ param = [normalized |-> 0]
    /\ handle = [normalized |-> 0]
    /\ shared_normalized = 0
    /\ call = [pc |-> "none"]
    /\ stores = [last |-> 0, dirty |-> FALSE]

\* No atomic time cell, no call of a time function.
NoTime ==
    /\ atomic = [kind |-> "none"]
    /\ observed = [op |-> "none"]

NoCalc == calc = [fn |-> "none"]

(***************************************************************************)
(* The smoother driven through its public interface.                       *)
(***************************************************************************)
SmoothInit ==
    /\ \E v \in Values : smoothed = SmoothF32_new(v)
    /\ panicked = FALSE
    /\ last_op = [op |-> "new", arg |-> 0, from |-> "Inactive"]
    /\ ramp = [pc |-> "none", v0 |-> 0]
    /\ NoParam
    /\ NoTime
    /\ NoCalc

SmoothSet ==
    /\ ~panicked
    /\ \E v \in Values :
          /\ smoothed' = set(smoothed, v)
          /\ last_op' = Op("set", v)
    /\ UNCHANGED <<panicked, ramp, paramVars, timeVars, calc>>

SmoothReset ==
    /\ ~panicked
    /\ \E v \in Values :
          /\ smoothed' = reset(smoothed, v)
          /\ last_op' = Op("reset", v)
    /\ UNCHANGED <<panicked, ramp, paramVars, timeVars, calc>>

SmoothSetSpeed ==
    /\ ~panicked
    /\ \E k \in Speeds :
          /\ smoothed' = set_speed(smoothed, k)
          /\ last_op' = Op("set_speed", k)
    /\ UNCHANGED <<panicked, ramp, paramVars, timeVars, calc>>

SmoothProcess ==
    /\ ~panicked
    /\ \E frames \in FrameCounts :
          /\ smoothed' = process(smoothed, ProcFrames_from(frames))
          /\ panicked' = process_panics(smoothed, ProcFrames_from(frames))
          /\ last_op' = Op("process", frames)
    /\ UNCHANGED <<ramp, paramVars, timeVars, calc>>

SmoothUpdateStatus ==
    /\ ~panicked
    /\ smoothed' = update_status(smoothed)
    /\ last_op' = Op("update_status", 0)
    /\ UNCHANGED <<panicked, ramp, paramVars, timeVars, calc>>

SmoothNext ==
    \/ SmoothSet
    \/ SmoothReset
    \/ SmoothSetSpeed
    \/ SmoothProcess
    \/ SmoothUpdateStatus

SpecSmooth == SmoothInit /\ [][SmoothNext]_vars

(***************************************************************************)
(* A Param on the audio thread and its Handle on the control thread.       *)
(* smoothed() is two steps, the atomic load and the rest of the call, so   *)
(* that the Handle can store in between.                                   *)
(***************************************************************************)
Linear == [kind |-> "Linear", exponent |-> 0]

Power(exponent) == [kind |-> "Power", exponent |-> exponent]

Exponential == [kind |-> "Exponential", exponent |-> 0]

\* The parameters: four ulps below 128.0 with a Linear and a Power(2.0)
\* gradient, the octave 64.0 .. 128.0 with an Exponential gradient, and
\* 38 dB .. 42 dB with a Linear gradient.
LinearParam ==
    [min |-> Top - 4 * Ulp, max |-> Top, gradient |-> Linear,
     unit |-> "Generic"]

PowerParam ==
    [min |-> Top - 4 * Ulp, max |-> Top, gradient |-> Power(2 * NormOne),
     unit |-> "Generic"]

ExponentialParam ==
    [min |-> 64 * F32One, max |-> 128 * F32One, gradient |-> Exponential,
     unit |-> "Generic"]

DecibelParam ==
    [min |-> 38 * F32One, max |-> 42 * F32One, gradient |-> Linear,
     unit |-> "Decibels"]

\* An Exponential gradient over a range that starts at 0.0.
ExponentialFromZeroParam ==
    [min |-> 0, max |-> 128 * F32One, gradient |-> Exponential,
     unit |-> "Generic"]

Params == {LinearParam, PowerParam, ExponentialParam, DecibelParam}

\* Arguments of set_normalized and from_normalized: -0.5, 0, 0.25 .. 1, 1.5.
NormalizedInputs ==
    {0 - (NormOne \div 2), 3 * (NormOne \div 2)}
        \cup { k * (NormOne \div 4) : k \in 0 .. 4 }

\* Arguments of set_value and from_value: values of the range, one below
\* and one above it.
ValueInputs(c) ==
    CASE c = LinearParam -> { Top + k * Ulp : k \in (0 - 5) .. 0 } \cup {Top + 2 * Ulp}
      [] c = PowerParam -> { Top + k * Ulp : k \in {0 - 5, 0 - 4, 0 - 3, 0} }
                              \cup {Top + 2 * Ulp}
      [] c = ExponentialParam ->
            { Exp2Table[y] : y \in DOMAIN Exp2Table }
                \cup {32 * F32One, 256 * F32One}
      [] c = DecibelParam -> { k * F32One : k \in 37 .. 43 }
      [] c = ExponentialFromZeroParam ->
            {0 - F32One, 0, 64 * F32One, 128 * F32One, 256 * F32One}

\* Smoothing speeds: the parameters whose values lie ulps apart ramp with
\* b in Speeds, the others jump (seconds = 0, b = 0).
SpeedInputs(c) == IF c \in {LinearParam, PowerParam} THEN Speeds ELSE {0}

Constructed(c) ==
    { from_value(v, c.min, c.max, c.gradient, c.unit, k) :
        v \in ValueInputs(c), k \in SpeedInputs(c) }
    \cup
    { from_normalized(n, c.min, c.max, c.gradient, c.unit, k) :
        n \in NormalizedInputs, k \in SpeedInputs(c) }

ParamInitFrom(cs) ==
    /\ \E c \in cs : \E built \in Constructed(c) :
          /\ param = built.param
          /\ handle = built.handle
          /\ shared_normalized = built.shared
          /\ smoothed = built.smoothed
          /\ stores = [last |-> built.shared, dirty |-> FALSE]
    /\ call = [pc |-> "idle", new_normalized |-> 0, clean |-> TRUE]
    /\ panicked = FALSE
    /\ last_op = [op |-> "new", arg |-> 0, from |-> "Inactive"]
    /\ ramp = [pc |-> "none", v0 |-> 0]
    /\ NoTime
    /\ NoCalc

ParamInit == ParamInitFrom(Params)

HandleStep(op, after) ==
    /\ handle' = after.handle
    /\ shared_normalized' = after.shared
    /\ stores' = [last  |-> IF after.stored THEN after.shared ELSE stores.last,
                  dirty |-> stores.dirty \/ after.shared # shared_normalized]
    /\ last_op' = Op(op, 0)
    /\ UNCHANGED <<param, smoothed, call, panicked, ramp, timeVars, calc>>

HandleSetNormalized ==
    \E n \in NormalizedInputs :
        HandleStep("set_normalized", set_normalized(handle, shared_normalized, n))

HandleSetValue ==
    \E v \in ValueInputs([min |-> handle.min, max |-> handle.max,
                          gradient |-> handle.gradient, unit |-> handle.unit]) :
        HandleStep("set_value", set_value(handle, shared_normalized, v))

ParamLoad ==
    /\ ~panicked
    /\ call.pc = "idle"
    /\ call' = [pc |-> "loaded",
                new_normalized |-> smoothed_load(param, shared_normalized),
                clean |-> ~stores.dirty]
    /\ stores' = [stores EXCEPT !.dirty = FALSE]
    /\ last_op' = Op("load", 0)
    /\ UNCHANGED <<param, handle, shared_normalized, smoothed, panicked, ramp,
                   timeVars, calc>>

ParamSmoothed ==
    /\ ~panicked
    /\ call.pc = "loaded"
    /\ \E frames \in FrameCounts :
          LET after == ParamF32_smoothed(param, smoothed, call.new_normalized,
                                         frames)
          IN  /\ param' = after.param
              /\ smoothed' = after.smoothed
              /\ panicked' = after.panics
              /\ last_op' = Op("smoothed", frames)
    /\ call' = [call EXCEPT !.pc = "idle"]
    /\ UNCHANGED <<handle, shared_normalized, stores, ramp, timeVars, calc>>

ParamNext ==
    \/ HandleSetNormalized
    \/ HandleSetValue
    \/ ParamLoad
    \/ ParamSmoothed

SpecParam == ParamInit /\ [][ParamNext]_vars

\* The control thread alone, also over the range that starts at 0.0.
HandleInit == ParamInitFrom(Params \cup {ExponentialFromZeroParam})

HandleNext ==
    \/ HandleSetNormalized
    \/ HandleSetValue

SpecHandle == HandleInit /\ [][HandleNext]_vars

(***************************************************************************)
(* Claims about the smoother's interface.                                  *)
(***************************************************************************)
\* C1: the status changes only along these transitions: set() moves any
\* status to Active; update_status() moves Active to Deactivating exactly
\* when |target - output[0]| < epsilon and otherwise leaves it Active, moves
\* Deactivating to Inactive and leaves Inactive; reset() moves any status to
\* Inactive; process() never changes it.  Inactive never becomes
\* Deactivating, and Active becomes Inactive only by reset().
C1_StatusTransitions ==
    [][ LET op   == last_op'.op
            from == smoothed.status
            to   == smoothed'.status
        IN  /\ op \in {"set", "update_status", "reset", "process", "set_speed"}
            /\ op = "set" => to = "Active"
            /\ op = "reset" => to = "Inactive"
            /\ op = "process" => to = from
            /\ op = "update_status" /\ from = "Active" =>
                  to = IF Abs(smoothed.input - smoothed.output[0]) < SETTLE
                       THEN "Deactivating" ELSE "Active"
            /\ op = "update_status" /\ from = "Deactivating" => to = "Inactive"
            /\ op = "update_status" /\ from = "Inactive" => to = "Inactive"
            /\ from = "Inactive" => to # "Deactivating"
            /\ from = "Active" /\ to = "Inactive" => op = "reset"
      ]_vars

\* update_status() has just moved a settled Active smoother to Deactivating.
C1_Witness ==
    /\ last_op.op = "update_status"
    /\ last_op.from = "Active"
    /\ smoothed.status = "Deactivating"

\* C8: from any status, reset(v) leaves status Inactive, target, last_output
\* and every entry of the output block equal to v and the coefficients a and
\* b as they were; process() then changes nothing (until set() is called).
C8_Reset ==
    [][ /\ last_op'.op = "reset" =>
              /\ smoothed'.status = "Inactive"
              /\ smoothed'.input = last_op'.arg
              /\ smoothed'.last_output = last_op'.arg
              /\ \A i \in Index : smoothed'.output[i] = last_op'.arg
              /\ smoothed'.a = smoothed.a
              /\ smoothed'.b = smoothed.b
        /\ last_op'.op = "process" /\ smoothed.status = "Inactive" =>
              /\ smoothed' = smoothed
              /\ ~panicked'
      ]_vars

\* reset() has just discarded a ramp in flight, under coefficients set by
\* set_speed.
C8_Witness ==
    /\ last_op.op = "reset"
    /\ last_op.from = "Active"
    /\ smoothed.b # 0
    /\ smoothed.status = "Inactive"

\* C9: for every frames > MAX_BLOCKSIZE, process(frames) on an Active
\* smoother behaves exactly like process(MAX_BLOCKSIZE): it sets last_output
\* to output[MAX_BLOCKSIZE - 1], indexes nothing out of range and does not
\* panic.
C9_Clamped ==
    smoothed.status = "Active" =>
        \A frames \in (MAX_BLOCKSIZE + 1) .. (MAX_BLOCKSIZE + 3) :
            LET t == process(smoothed, ProcFrames_from(frames))
            IN  /\ t = process(smoothed, ProcFrames_from(MAX_BLOCKSIZE))
                /\ t.last_output = t.output[MAX_BLOCKSIZE - 1]
                /\ ~process_panics(smoothed, ProcFrames_from(frames))

\* process() has just run mid-ramp with more frames than the capacity.
C9_Witness ==
    /\ last_op.op = "process"
    /\ last_op.arg > MAX_BLOCKSIZE
    /\ last_op.from = "Active"
    /\ ~panicked
    /\ smoothed.last_output = smoothed.output[MAX_BLOCKSIZE - 1]
    /\ smoothed.last_output # smoothed.input

\* C22: on an Active smoother, process(frames) with
\* 1 <= frames <= MAX_BLOCKSIZE writes out[0] = target * a + last_output * b
\* and out[i] = target * a + out[i - 1] * b for 0 < i < frames, then sets
\* last_output to out[frames - 1]; the entries from frames on, the target,
\* the coefficients and the status stay as they were.
C22_ProcessRecurrence ==
    [][ /\ last_op'.op = "process"
        /\ smoothed.status = "Active"
        /\ last_op'.arg \in 1 .. MAX_BLOCKSIZE
        =>
          LET frames == last_op'.arg
              out    == smoothed'.output
              scaled == F32MulCoef(smoothed.input, smoothed.a)
          IN  /\ out[0] = F32Add(scaled, F32MulCoef(smoothed.last_output,
                                                    smoothed.b))
              /\ \A i \in 1 .. (frames - 1) :
                    out[i] = F32Add(scaled, F32MulCoef(out[i - 1], smoothed.b))
              /\ smoothed'.last_output = out[frames - 1]
              /\ \A i \in frames .. (MAX_BLOCKSIZE - 1) :
                    out[i] = smoothed.output[i]
              /\ smoothed'.input = smoothed.input
              /\ smoothed'.a = smoothed.a
              /\ smoothed'.b = smoothed.b
              /\ smoothed'.status = "Active"
              /\ ~panicked'
      ]_vars

\* process() has just written a block shorter than the capacity in the
\* middle of a ramp: the sample it wrote is between the value it started
\* from and the target, and the entry after it was left alone.
C22_Witness ==
    /\ last_op.op = "process"
    /\ last_op.from = "Active"
    /\ last_op.arg = MAX_BLOCKSIZE - 1
    /\ last_op.arg >= 1
    /\ smoothed.b # 0
    /\ smoothed.last_output = smoothed.output[last_op.arg - 1]
    /\ smoothed.last_output # smoothed.input
    /\ smoothed.output[MAX_BLOCKSIZE - 1] # smoothed.last_output

\* C23: after a block has been filled, update_status() moves Active to
\* Deactivating exactly when |target - (target * a + last_output * b)| <
\* epsilon: the sample that would start the following block decides, not a
\* sample of the block just written.
C23_SettlesOnNextSample ==
    [][ /\ last_op'.op = "update_status"
        /\ last_op.op = "process"
        /\ last_op.arg >= 1
        /\ smoothed.status = "Active"
        =>
          LET next == F32Add(F32MulCoef(smoothed.input, smoothed.a),
                             F32MulCoef(smoothed.last_output, smoothed.b))
          IN  smoothed'.status =
                  IF Abs(F32Sub(smoothed.input, next)) < SETTLE
                  THEN "Deactivating" ELSE "Active"
      ]_vars

\* C25: in every state reached through new, set, set_speed, process,
\* update_status and reset in which the status is Inactive or Deactivating,
\* last_output is the target and every entry of the output block is the
\* target: the block returned with status Deactivating is constant at the
\* target.
C25_SnappedWhenNotActive ==
    smoothed.status \in {"Inactive", "Deactivating"} =>
        /\ smoothed.last_output = smoothed.input
        /\ \A i \in Index : smoothed.output[i] = smoothed.input

\* update_status() has just ended a ramp run under set_speed coefficients:
\* the status is Deactivating and the block is constant at the target.
C25_Witness ==
    /\ last_op.op = "update_status"
    /\ last_op.from = "Active"
    /\ smoothed.status = "Deactivating"
    /\ smoothed.b # 0
    /\ smoothed.last_output = smoothed.input
    /\ \A i \in Index : smoothed.output[i] = smoothed.input

\* C28: process() on an Active smoother with a requested frame count of 0
\* accesses no index outside [0, MAX_BLOCKSIZE), does not panic or
\* underflow, and leaves last_output as it was.
C28_ZeroFrames ==
    [][ /\ last_op'.op = "process"
        /\ last_op'.arg = 0
        /\ smoothed.status = "Active"
        =>
          /\ ~process_panics(smoothed, ProcFrames_new(0))
          /\ ~panicked'
          /\ smoothed'.last_output = smoothed.last_output
      ]_vars

(***************************************************************************)
(* One ramp: a smoother holding v0 with set_speed coefficients, then       *)
(* set(v1), then block steps (process(frames), frames >= 1, followed by    *)
(* update_status()) with no further set() or reset().                      *)
(***************************************************************************)
BlockFrameCounts == 1 .. (MAX_BLOCKSIZE + 1)

RampInit ==
    /\ \E v0 \in Values, k \in Speeds :
          /\ smoothed = set_speed(SmoothF32_new(v0), k)
          /\ ramp = [pc |-> "hold", v0 |-> v0]
    /\ panicked = FALSE
    /\ last_op = [op |-> "new", arg |-> 0, from |-> "Inactive"]
    /\ NoParam
    /\ NoTime
    /\ NoCalc

RampSet ==
    /\ ramp.pc = "hold"
    /\ \E v1 \in Values \ {ramp.v0} :
          /\ smoothed' = set(smoothed, v1)
          /\ last_op' = Op("set", v1)
    /\ ramp' = [ramp EXCEPT !.pc = "process"]
    /\ UNCHANGED <<panicked, paramVars, timeVars, calc>>

RampProcess ==
    /\ ramp.pc = "process"
    /\ ~panicked
    /\ \E frames \in BlockFrameCounts :
          /\ smoothed' = process(smoothed, ProcFrames_from(frames))
          /\ panicked' = process_panics(smoothed, ProcFrames_from(frames))
          /\ last_op' = Op("process", frames)
    /\ ramp' = [ramp EXCEPT !.pc = "update_status"]
    /\ UNCHANGED <<paramVars, timeVars, calc>>

RampUpdateStatus ==
    /\ ramp.pc = "update_status"
    /\ ~panicked
    /\ smoothed' = update_status(smoothed)
    /\ last_op' = Op("update_status", 0)
    /\ ramp' = [ramp EXCEPT !.pc = "process"]
    /\ UNCHANGED <<panicked, paramVars, timeVars, calc>>

RampNext ==
    \/ RampSet
    \/ RampProcess
    \/ RampUpdateStatus

SpecRamp == RampInit /\ [][RampNext]_vars

\* The audio callback runs block after block: every step of the ramp that
\* can be taken is eventually taken.
SpecRampFair ==
    /\ SpecRamp
    /\ WF_vars(RampSet)
    /\ WF_vars(RampProcess)
    /\ WF_vars(RampUpdateStatus)

(***************************************************************************)
(* Claims about the ramp.                                                  *)
(***************************************************************************)
Between(lo, x, hi) == (lo <= x /\ x <= hi) \/ (hi <= x /\ x <= lo)

\* C5: after set(v1), repeating block steps (process(frames), frames >= 1,
\* then update_status()) reaches status Inactive after finitely many blocks,
\* and the status then stays Inactive.
C5_ReachesInactive == <>[](smoothed.status = "Inactive")

\* C6: after set(v1) on a smoother holding v0, every sample process() writes
\* into the block and last_output after the block lie between v0 and v1
\* inclusive, and none is farther from v1 than the sample before it (the
\* first sample of a block follows the last_output of the block before).
C6_MonotonicNoOvershoot ==
    [][ last_op'.op = "process" =>
          LET frames == Min(last_op'.arg, MAX_BLOCKSIZE)
              v1     == smoothed.input
              prev(i) == IF i = 0 THEN smoothed.last_output
                         ELSE smoothed'.output[i - 1]
          IN  /\ \A i \in 0 .. (frames - 1) :
                    /\ Between(ramp.v0, smoothed'.output[i], v1)
                    /\ Abs(v1 - smoothed'.output[i]) <= Abs(v1 - prev(i))
              /\ Between(ramp.v0, smoothed'.last_output, v1)
              /\ Abs(v1 - smoothed'.last_output) <= Abs(v1 - smoothed.last_output)
      ]_vars

C3_LastWriteWins ==
    [][ last_op'.op = "load" => call'.new_normalized = stores.last ]_vars

\* A call has just loaded a value the Handle stored after the previous load.
C3_Witness ==
    /\ last_op.op = "load"
    /\ call.pc = "loaded"
    /\ ~call.clean
    /\ call.new_normalized = stores.last
    /\ call.new_normalized # param.normalized

C7_WitnessOversized ==
    /\ last_op.op = "smoothed"
    /\ last_op.from = "Inactive"
    /\ last_op.arg > MAX_BLOCKSIZE
    /\ call.clean
    /\ smoothed.status = "Inactive"
    /\ ~panicked

C21_WitnessBackAgain ==
    /\ last_op.op = "smoothed"
    /\ last_op.from = "Inactive"
    /\ smoothed.status = "Inactive"
    /\ ~call.clean
    /\ param.normalized = call.new_normalized
    /\ ~panicked

\* C26: set_normalized and set_value change only the Handle's normalized
\* and value and the shared cell, never the Param's cached normalized and
\* value or the smoother; smoothed() only loads the cell, it never stores
\* into it and never changes the Handle; min, max, gradient and unit never
\* change after construction and are the same on both sides.
ParamConstants == {"min", "max", "gradient", "unit"}

C26_Frames ==
    /\ [](\A f \in ParamConstants : param[f] = handle[f])
    /\ [][ /\ last_op'.op \in {"set_normalized", "set_value"} =>
                /\ param' = param
                /\ smoothed' = smoothed
                /\ panicked' = panicked
          /\ last_op'.op \in {"load", "smoothed"} =>
                /\ handle' = handle
                /\ shared_normalized' = shared_normalized
          /\ \A f \in ParamConstants :
                /\ param'[f] = param[f]
                /\ handle'[f] = handle[f]
        ]_vars

\* The Handle has just stored a value the Param has not seen yet, in the
\* middle of a ramp: the cell holds the Handle's normalized value, the Param
\* still caches another.
C26_Witness ==
    /\ last_op.op \in {"set_normalized", "set_value"}
    /\ shared_normalized = handle.normalized
    /\ param.normalized # handle.normalized
    /\ smoothed.status = "Active"
    /\ param.unit = "Decibels"

\* C27: in every interleaving of Handle writes and Param reads, the first
\* smoothed() whose load follows the Handle's last store leaves the Param's
\* cached normalized value equal to the Handle's and the smoother's target
\* equal to the mapped (for Decibels gain-converted) value of it, and both
\* stay so after every later smoothed() until the Handle writes again: in
\* every state between two calls in which the cell has not changed since
\* the last load, the two equalities hold.
C27_ConvergesToHandle ==
    call.pc = "idle" /\ ~stores.dirty =>
        /\ param.normalized = handle.normalized
        /\ smoothed.input =
              rt_value(normalized_to_value_f32(handle.normalized, handle.min,
                                               handle.max, handle.gradient),
                       handle.unit)
        /\ param.value = smoothed.input

\* A call on a Decibels parameter has just picked up a value that the
\* Handle stored after the load before, and the Handle has not stored since.
C27_Witness ==
    /\ last_op.op = "smoothed"
    /\ call.pc = "idle"
    /\ ~stores.dirty
    /\ ~call.clean
    /\ param.unit = "Decibels"
    /\ param.normalized = handle.normalized
    /\ smoothed.input = db_to_coeff_clamped_neg_90_db_f32(handle.value)
    /\ smoothed.input # handle.value

\* C10: after from_value or from_normalized with min < max, and after any
\* sequence of set_value / set_normalized calls with finite arguments
\* (out-of-range ones included), the value in the shared cell is a number
\* within [0, 1].
C10_SharedInUnitRange ==
    /\ shared_normalized # NAN
    /\ 0 <= shared_normalized
    /\ shared_normalized <= NormOne

(***************************************************************************)
(* MusicalTime, SuperclockTime (time.rs) and the atomic time cells         *)
(* (atomic/atomic_time.rs).  A u32 is a number below 2^31, a u64 is its    *)
(* two 32-bit halves [hi, lo], and the byte order of the build is part of   *)
(* the cell.                                                               *)
(***************************************************************************)
SUPER_UNITS == 508032000

MusicalTime_new(beats, super_beats) ==
    [coarse |-> beats, fine |-> Min(super_beats, SUPER_UNITS - 1)]

SuperclockTime_new(seconds, ticks) ==
    [coarse |-> seconds, fine |-> Min(ticks, SUPER_UNITS - 1)]

Endians == {"little", "big"}

Reverse(bytes) == [i \in 1 .. Len(bytes) |-> bytes[Len(bytes) + 1 - i]]

\* u32::to_ne_bytes and u32::from_ne_bytes.
u32_to_ne_bytes(v, endian) ==
    LET le == [i \in 1 .. 4 |-> (v \div 2^(8 * (i - 1))) % 2^8]
    IN  IF endian = "little" THEN le ELSE Reverse(le)

u32_from_ne_bytes(bytes, endian) ==
    LET le == IF endian = "little" THEN bytes ELSE Reverse(bytes)
    IN  le[1] + le[2] * 2^8 + le[3] * 2^16 + le[4] * 2^24

\* u64::from_ne_bytes and u64::to_ne_bytes.
u64_from_ne_bytes(bytes, endian) ==
    LET le == IF endian = "little" THEN bytes ELSE Reverse(bytes)
    IN  [ lo |-> u32_from_ne_bytes(SubSeq(le, 1, 4), "little"),
          hi |-> u32_from_ne_bytes(SubSeq(le, 5, 8), "little") ]

u64_to_ne_bytes(v, endian) ==
    LET le == u32_to_ne_bytes(v.lo, "little") \o u32_to_ne_bytes(v.hi, "little")
    IN  IF endian = "little" THEN le ELSE Reverse(le)

\* u32x2_to_u64 that lays the second component down first.
u32x2_to_u64_swapped(v1, v2, endian) ==
    u64_from_ne_bytes(u32_to_ne_bytes(v2, endian) \o u32_to_ne_bytes(v1, endian),
                      endian)

u32x2_to_u64(v1, v2, endian) ==
    u64_from_ne_bytes(u32_to_ne_bytes(v1, endian) \o u32_to_ne_bytes(v2, endian),
                      endian)

\* u64_to_u32x2 that reads both components from the first four bytes.
u64_to_u32x2_first_half(v, endian) ==
    LET bytes == u64_to_ne_bytes(v, endian)
    IN  << u32_from_ne_bytes(SubSeq(bytes, 1, 4), endian),
           u32_from_ne_bytes(SubSeq(bytes, 1, 4), endian) >>

u64_to_u32x2(v, endian) ==
    LET bytes == u64_to_ne_bytes(v, endian)
    IN  << u32_from_ne_bytes(SubSeq(bytes, 1, 4), endian),
           u32_from_ne_bytes(SubSeq(bytes, 5, 8), endian) >>

\* new/set store one word; get and swap decode the word they read.
AtomicMusicalTime_word(musical_time, endian) ==
    u32x2_to_u64(musical_time.coarse, musical_time.fine, endian)

AtomicMusicalTime_get(word, endian) ==
    LET pair == u64_to_u32x2(word, endian)
    IN  MusicalTime_new(pair[1], pair[2])

AtomicSuperclockTime_word(superclock_time, endian) ==
    u32x2_to_u64(superclock_time.coarse, superclock_time.fine, endian)

AtomicSuperclockTime_get(word, endian) ==
    LET pair == u64_to_u32x2(word, endian)
    IN  SuperclockTime_new(pair[1], pair[2])

Kinds == {"MusicalTime", "SuperclockTime"}

\* The times a caller can hold: built by new(), so the fine component of
\* the last one is capped at SUPER_UNITS - 1.
CoarseInputs == {4578749, 2147483647}

FineInputs == {12390, 45781, SUPER_UNITS + 7}

Times(kind) ==
    IF kind = "MusicalTime"
    THEN { MusicalTime_new(c, f) : c \in CoarseInputs, f \in FineInputs }
    ELSE { SuperclockTime_new(c, f) : c \in CoarseInputs, f \in FineInputs }

Word(kind, t, endian) ==
    IF kind = "MusicalTime" THEN AtomicMusicalTime_word(t, endian)
    ELSE AtomicSuperclockTime_word(t, endian)

Decode(kind, word, endian) ==
    IF kind = "MusicalTime" THEN AtomicMusicalTime_get(word, endian)
    ELSE AtomicSuperclockTime_get(word, endian)

AtomicInit ==
    /\ \E kind \in Kinds, endian \in Endians : \E t \in Times(kind) :
          /\ atomic = [kind |-> kind, endian |-> endian,
                       word |-> Word(kind, t, endian)]
          /\ observed = [written |-> {t}, op |-> "new", time |-> t,
                         stored |-> t]
    /\ smoothed = SmoothF32_new(0)
    /\ panicked = FALSE
    /\ last_op = [op |-> "new", arg |-> 0, from |-> "Inactive"]
    /\ ramp = [pc |-> "none", v0 |-> 0]
    /\ NoParam
    /\ NoCalc

\* The writer thread: set() and swap().
AtomicSet ==
    /\ \E t \in Times(atomic.kind) :
          /\ atomic' = [atomic EXCEPT !.word = Word(atomic.kind, t, atomic.endian)]
          /\ observed' = [observed EXCEPT !.written = @ \cup {t}, !.op = "set",
                                          !.time = t, !.stored = t]
    /\ UNCHANGED <<smoothed, panicked, last_op, ramp, paramVars, calc>>

AtomicSwap ==
    /\ \E t \in Times(atomic.kind) :
          /\ atomic' = [atomic EXCEPT !.word = Word(atomic.kind, t, atomic.endian)]
          /\ observed' = [written |-> observed.written \cup {t},
                          op      |-> "swap",
                          time    |-> Decode(atomic.kind, atomic.word,
                                             atomic.endian),
                          stored  |-> t]
    /\ UNCHANGED <<smoothed, panicked, last_op, ramp, paramVars, calc>>

\* A reader thread: get().
AtomicGet ==
    /\ observed' = [observed EXCEPT
                      !.op = "get",
                      !.time = Decode(atomic.kind, atomic.word, atomic.endian)]
    /\ UNCHANGED <<atomic, smoothed, panicked, last_op, ramp, paramVars, calc>>

AtomicNext ==
    \/ AtomicSet
    \/ AtomicSwap
    \/ AtomicGet

SpecAtomic == AtomicInit /\ [][AtomicNext]_vars

\* C4: every (coarse, fine) pair that get() or swap() returns, on either
\* cell and under any interleaving of the writer's set() / swap() with the
\* readers' get(), is a pair that new(), set() or swap() stored as a whole:
\* never the coarse component of one write with the fine one of another.
C4_NoTearing ==
    observed.op \in {"get", "swap"} => observed.time \in observed.written

\* get() has just returned a pair while the cell has also held a pair with
\* the same coarse but another fine component, and one with the same fine
\* but another coarse component.
C4_Witness ==
    /\ observed.op = "get"
    /\ \E t1, t2 \in observed.written :
          /\ t1.coarse = observed.time.coarse /\ t1.fine # observed.time.fine
          /\ t2.fine = observed.time.fine /\ t2.coarse # observed.time.coarse

\* C15: on either cell, get() returns the time that new(), set() or swap()
\* stored last, packed by u32x2_to_u64 and unpacked by u64_to_u32x2, and
\* swap() returns the time that was stored just before it.
C15_RoundTrip ==
    /\ [](atomic.kind \in Kinds =>
            /\ Decode(atomic.kind, atomic.word, atomic.endian) = observed.stored
            /\ u64_to_u32x2(atomic.word, atomic.endian)
                  = <<observed.stored.coarse, observed.stored.fine>>
            /\ observed.op = "get" => observed.time = observed.stored)
    /\ [][observed'.op = "swap" => observed'.time = observed.stored]_vars

\* swap() has returned the pair of the documentation's example and left
\* another pair, which the cell hands back.
C15_Witness ==
    /\ observed.op = "swap"
    /\ observed.time = MusicalTime_new(4578749, 12390)
    /\ observed.stored = MusicalTime_new(2147483647, 45781)
    /\ AtomicMusicalTime_get(atomic.word, atomic.endian) = observed.stored

(***************************************************************************)
(* u64 and f64 arithmetic.  A wide natural number is the sequence of its   *)
(* base-2^12 digits, lowest first and without leading zeros; an f64 is     *)
(* [m, e], the number m * 2^e with m a wide natural below 2^53.  Every     *)
(* f64 operation rounds its exact result to 53 significant bits, ties to   *)
(* even.                                                                   *)
(***************************************************************************)
LimbBase == 2^12

F64_MANTISSA_DIGITS == 52 + 1

RECURSIVE Wide(_)
Wide(n) == IF n = 0 THEN << >> ELSE <<n % LimbBase>> \o Wide(n \div LimbBase)

RECURSIVE Narrow(_)
Narrow(w) == IF w = << >> THEN 0 ELSE Head(w) + LimbBase * Narrow(Tail(w))

\* w * m + carry for a multiplier m, 0 < m < 2^18.
RECURSIVE WideMulAdd(_, _, _)
WideMulAdd(w, m, carry) ==
    IF w = << >> THEN Wide(carry)
    ELSE LET p == Head(w) * m + carry
         IN  <<p % LimbBase>> \o WideMulAdd(Tail(w), m, p \div LimbBase)

\* Quotient and remainder of w by a divisor d, 0 < d < 2^18.
RECURSIVE WideDivRem(_, _)
WideDivRem(w, d) ==
    IF w = << >> THEN [q |-> << >>, r |-> 0]
    ELSE LET hi  == WideDivRem(Tail(w), d)
             cur == hi.r * LimbBase + Head(w)
         IN  [ q |-> IF hi.q = << >> /\ cur \div d = 0 THEN << >>
                     ELSE <<cur \div d>> \o hi.q,
               r |-> cur % d ]

RECURSIVE WideAdd(_, _, _)
WideAdd(v, w, carry) ==
    IF v = << >> THEN WideMulAdd(w, 1, carry)
    ELSE IF w = << >> THEN WideMulAdd(v, 1, carry)
    ELSE LET t == Head(v) + Head(w) + carry
         IN  <<t % LimbBase>> \o WideAdd(Tail(v), Tail(w), t \div LimbBase)

RECURSIVE WideMul(_, _)
WideMul(v, w) ==
    IF v = << >> \/ w = << >> THEN << >>
    ELSE LET rest == WideMul(v, Tail(w))
             low  == IF Head(w) = 0 THEN << >> ELSE WideMulAdd(v, Head(w), 0)
         IN  WideAdd(low, IF rest = << >> THEN << >> ELSE <<0>> \o rest, 0)

RECURSIVE BitLen(_)
BitLen(n) == IF n = 0 THEN 0 ELSE 1 + BitLen(n \div 2)

WideBits(w) ==
    IF w = << >> THEN 0 ELSE 12 * (Len(w) - 1) + BitLen(w[Len(w)])

WideIsOdd(w) == w # << >> /\ Head(w) % 2 = 1

RECURSIVE WideShl(_, _)
WideShl(w, k) ==
    IF k = 0 \/ w = << >> THEN w
    ELSE IF k >= 12 THEN <<0>> \o WideShl(w, k - 12)
    ELSE WideMulAdd(w, 2^k, 0)

\* w div 2^k, and whether a nonzero bit was dropped.
RECURSIVE WideShr(_, _)
WideShr(w, k) ==
    IF k = 0 \/ w = << >> THEN [q |-> w, sticky |-> FALSE]
    ELSE IF k >= 12
    THEN LET rest == WideShr(Tail(w), k - 12)
         IN  [q |-> rest.q, sticky |-> rest.sticky \/ Head(w) # 0]
    ELSE LET d == WideDivRem(w, 2^k)
         IN  [q |-> d.q, sticky |-> d.r # 0]

\* (w + fraction) / 2^k rounded to the nearest integer, ties to even;
\* sticky says that the fraction below w is not zero.
WideRoundShr(w, k, sticky) ==
    IF k = 0 THEN w
    ELSE LET s1   == WideShr(w, k - 1)
             half == WideDivRem(s1.q, 2)
             up   == half.r = 1 /\ (s1.sticky \/ sticky \/ WideIsOdd(half.q))
         IN  IF up THEN WideMulAdd(half.q, 1, 1) ELSE half.q

\* The f64 nearest to (w + fraction) * 2^e.
F64Round(w, e, sticky) ==
    LET k == WideBits(w) - F64_MANTISSA_DIGITS
    IN  IF k <= 0 THEN [m |-> w, e |-> e]
        ELSE LET r == WideRoundShr(w, k, sticky)
             IN  IF WideBits(r) > F64_MANTISSA_DIGITS
                 THEN [m |-> WideShr(r, 1).q, e |-> e + k + 1]
                 ELSE [m |-> r, e |-> e + k]

\* u64 as f64.
F64FromWide(w) == F64Round(w, 0, FALSE)

F64Positive(x) == x.m # << >>

\* x * y on f64.
F64Mul(x, y) == F64Round(WideMul(x.m, y.m), x.e + y.e, FALSE)

\* x / y on f64, for a divisor y = d1 * d2 with 0 < d1, d2 < 2^18: the
\* quotient is computed to 56 bits or more before it is rounded.
F64DivBy(x, d1, d2) ==
    IF x.m = << >> THEN x
    ELSE LET k  == 92 - WideBits(x.m)
             q1 == WideDivRem(WideShl(x.m, k), d1)
             q2 == WideDivRem(q1.q, d2)
         IN  F64Round(q2.q, x.e - k, q1.r # 0 \/ q2.r # 0)

\* f64::round (halves away from zero) followed by `as u64`, for x >= 0.
F64RoundToU64(x) ==
    IF x.e >= 0 THEN WideShl(x.m, x.e)
    ELSE WideDivRem(WideMulAdd(WideShr(x.m, 0 - x.e - 1).q, 1, 1), 2).q

(***************************************************************************)
(* SuperSampleTime: sample counts and super-sample ticks.  A SampleRate    *)
(* is modelled by its whole number of hertz; u64 values are wide naturals. *)
(***************************************************************************)
SUPER_SAMPLE_TICKS_PER_SECOND == 282240000

\* The variables of the smoother, parameter and atomic-time specifications at
\* rest, for the specifications of the pure conversions.
Idle ==
    /\ smoothed = SmoothF32_new(0)
    /\ panicked = FALSE
    /\ last_op = [op |-> "new", arg |-> 0, from |-> "Inactive"]
    /\ ramp = [pc |-> "none", v0 |-> 0]
    /\ NoParam
    /\ NoTime

idleVars == <<smoothed, panicked, last_op, ramp, paramVars, timeVars>>

\* Wrapping to the 64 bits of a u64.
RECURSIVE WideTrim(_)
WideTrim(w) ==
    IF w = << >> THEN w
    ELSE IF w[Len(w)] = 0 THEN WideTrim(SubSeq(w, 1, Len(w) - 1))
    ELSE w

WrapU64(w) ==
    IF Len(w) <= 5 THEN w
    ELSE WideTrim(SubSeq(w, 1, 5) \o <<w[6] % 2^4>>)

StandardRates == {22050, 24000, 44100, 48000, 88200, 96000, 176400, 192000}

\* from_sample with every rate sent through the 44100 arm.
SuperSampleTime_from_sample_one_arm(sample, sample_rate) ==
    WrapU64(WideMulAdd(Wide(sample), SUPER_SAMPLE_TICKS_PER_SECOND \div 44100, 0))

SuperSampleTime_from_sample(sample, sample_rate) ==
    IF sample_rate \in StandardRates
    THEN WrapU64(WideMulAdd(Wide(sample),
                            SUPER_SAMPLE_TICKS_PER_SECOND \div sample_rate, 0))
    ELSE F64RoundToU64(
             F64Mul(F64FromWide(Wide(sample)),
                    F64DivBy(F64FromWide(Wide(SUPER_SAMPLE_TICKS_PER_SECOND)),
                             sample_rate, 1)))

\* self.0 as f64 / 282240000.0, the divisor being 16800 * 16800.
SuperSampleTime_to_seconds(ticks) ==
    F64DivBy(F64FromWide(ticks), SUPER_SAMPLE_TICKS_PER_SECOND \div 16800, 16800)

Seconds_to_nearest_sample_round(seconds, sample_rate) ==
    IF F64Positive(seconds)
    THEN F64RoundToU64(F64Mul(seconds, F64FromWide(Wide(sample_rate))))
    ELSE << >>

SuperSampleTime_to_nearest_sample_round(ticks, sample_rate) ==
    Seconds_to_nearest_sample_round(SuperSampleTime_to_seconds(ticks), sample_rate)

\* Sample counts from 0 to 10^9: the ends of the range, the powers of two
\* and their neighbours, and counts without small factors.
SampleCounts ==
    0..3 \cup {2^i + d : i \in 2..29, d \in {0 - 1, 0, 1}}
         \cup {10^9 - d : d \in 0..3}
         \cup {123456789, 999999937}

SampleRates == StandardRates \cup {32000, 11025}

SampleInit ==
    /\ \E sample \in SampleCounts, sample_rate \in SampleRates :
          calc = [fn |-> "SampleTime", sample |-> sample,
                  sample_rate |-> sample_rate]
    /\ Idle

SampleFromSample ==
    /\ calc.fn = "SampleTime"
    /\ calc' = [fn |-> "from_sample", sample |-> calc.sample,
                sample_rate |-> calc.sample_rate,
                ticks |-> SuperSampleTime_from_sample(calc.sample, calc.sample_rate)]
    /\ UNCHANGED idleVars

SampleToNearestSampleRound ==
    /\ calc.fn = "from_sample"
    /\ calc' = [fn |-> "to_nearest_sample_round", sample |-> calc.sample,
                sample_rate |-> calc.sample_rate, ticks |-> calc.ticks,
                back |-> SuperSampleTime_to_nearest_sample_round(
                             calc.ticks, calc.sample_rate)]
    /\ UNCHANGED idleVars

SampleNext ==
    \/ SampleFromSample
    \/ SampleToNearestSampleRound

SpecSample == SampleInit /\ [][SampleNext]_vars

\* C11: at each of the eight standard rates and for sample counts up to
\* 10^9, from_sample yields exactly sample * (282240000 / rate) ticks with
\* 282240000 a multiple of the rate and no overflow of the u64, and
\* to_nearest_sample_round at the same rate gives the sample count back.
C11_LosslessAtStandardRates ==
    (calc.fn \in {"from_sample", "to_nearest_sample_round"}
        /\ calc.sample_rate \in StandardRates)
    => /\ SUPER_SAMPLE_TICKS_PER_SECOND % calc.sample_rate = 0
       /\ WideDivRem(calc.ticks, SUPER_SAMPLE_TICKS_PER_SECOND \div calc.sample_rate)
             = [q |-> Wide(calc.sample), r |-> 0]
       /\ WideBits(calc.ticks) <= 64
       /\ calc.fn = "to_nearest_sample_round" => Narrow(calc.back) = calc.sample

C11_Witness ==
    /\ calc.fn = "to_nearest_sample_round"
    /\ calc.sample_rate = 192000
    /\ calc.sample = 10^9
    /\ calc.back = Wide(10^9)

(***************************************************************************)
(* SuperFrames::from_frames.  Integer overflow panics in a build with      *)
(* overflow checks (debug) and wraps in one without (release): the build   *)
(* is an input.  u32 results are kept as wide naturals.                    *)
(***************************************************************************)
Builds == {"debug", "release"}

RECURSIVE WideLess(_, _)
WideLess(a, b) ==
    IF Len(a) # Len(b) THEN Len(a) < Len(b)
    ELSE IF a = << >> THEN FALSE
    ELSE IF a[Len(a)] # b[Len(b)] THEN a[Len(a)] < b[Len(b)]
    ELSE WideLess(WideTrim(SubSeq(a, 1, Len(a) - 1)),
                  WideTrim(SubSeq(b, 1, Len(b) - 1)))

RECURSIVE WideSubBorrow(_, _, _)
WideSubBorrow(a, b, borrow) ==
    IF a = << >> THEN << >>
    ELSE LET d == Head(a) - (IF b = << >> THEN 0 ELSE Head(b)) - borrow
         IN  <<d % LimbBase>>
                \o WideSubBorrow(Tail(a), IF b = << >> THEN b ELSE Tail(b),
                                 IF d < 0 THEN 1 ELSE 0)

\* a - b for a >= b.
WideSub(a, b) == WideTrim(WideSubBorrow(a, b, 0))

\* a - b on u64, wrapping.
U64WrappingSub(a, b) ==
    IF WideLess(a, b) THEN WideSub(<<0, 0, 0, 0, 0, 2^4>>, WideSub(b, a))
    ELSE WideSub(a, b)

\* `as u32` of an integer: the low 32 bits.
AsU32(w) ==
    IF Len(w) <= 2 THEN w
    ELSE WideTrim(SubSeq(w, 1, 2) \o <<w[3] % 2^8>>)

U32_MAX == <<LimbBase - 1, LimbBase - 1, 2^8 - 1>>

\* `as u32` of a non-negative f64 already rounded to an integer: saturating.
F64AsU32(w) == IF WideLess(U32_MAX, w) THEN U32_MAX ELSE w

from_frames_constant(SR, frames, build) ==
    LET seconds == IF frames < SR THEN 0 ELSE frames % SR
        product == WideMulAdd(Wide(seconds), SR, 0)
        fract_seconds ==
            IF frames < SR THEN Wide(frames)
            ELSE U64WrappingSub(Wide(frames), product)
        scaled == IF AsU32(fract_seconds) = << >> THEN << >>
                  ELSE WideMulAdd(AsU32(fract_seconds), SUPER_UNITS \div SR, 0)
    IN  [ seconds |-> Wide(seconds),
          super_frames |-> AsU32(scaled),
          panics |-> build = "debug"
                     /\ (\/ frames >= SR /\ WideLess(Wide(frames), product)
                         \/ WideLess(U32_MAX, scaled)) ]

SuperFrames_from_frames(frames, sample_rate, build) ==
    IF sample_rate \in StandardRates
    THEN from_frames_constant(sample_rate, frames, build)
    ELSE LET seconds == IF frames < sample_rate THEN 0 ELSE frames % sample_rate
             product == WideMulAdd(Wide(seconds), sample_rate, 0)
             fract_seconds ==
                 IF frames < sample_rate THEN Wide(frames)
                 ELSE IF WideLess(Wide(frames), product) THEN << >>
                 ELSE WideSub(Wide(frames), product)
             super_frames ==
                 F64AsU32(F64RoundToU64(
                     F64Mul(F64FromWide(fract_seconds),
                            F64DivBy(F64FromWide(Wide(SUPER_UNITS)), sample_rate, 1))))
             carry == ~WideLess(super_frames, Wide(SUPER_UNITS))
         IN  [ seconds |-> Wide(IF carry THEN seconds + 1 ELSE seconds),
               super_frames |-> IF carry THEN WideSub(super_frames, Wide(SUPER_UNITS))
                                ELSE super_frames,
               panics |-> FALSE ]

\* Frame counts: below, at and above one second of each rate, and large.
FrameCounts64(sample_rate) ==
    {0, 1, 512, sample_rate - 1, sample_rate, sample_rate + 1, sample_rate + 2,
     2 * sample_rate - 1, 2 * sample_rate, 3 * sample_rate + 7, 10^9}

FramesInit ==
    /\ \E sample_rate \in StandardRates \cup {32000}, build \in Builds :
          \E frames \in FrameCounts64(sample_rate) :
             calc = [fn |-> "Frames", frames |-> frames,
                     sample_rate |-> sample_rate, build |-> build]
    /\ Idle

FramesFromFrames ==
    /\ calc.fn = "Frames"
    /\ calc' = [fn |-> "from_frames", frames |-> calc.frames,
                sample_rate |-> calc.sample_rate, build |-> calc.build,
                time |-> SuperFrames_from_frames(calc.frames, calc.sample_rate,
                                                 calc.build)]
    /\ UNCHANGED idleVars

FramesNext == FramesFromFrames

SpecFrames == FramesInit /\ [][FramesNext]_vars

\* C12: at each of the eight standard rates from_frames returns
\* seconds = frames div rate and super_frames = (frames mod rate) *
\* (SUPER_UNITS / rate), a value below SUPER_UNITS, without overflow.
C12_FromFramesLossless ==
    (calc.fn = "from_frames" /\ calc.sample_rate \in StandardRates)
    => /\ ~calc.time.panics
       /\ calc.time.seconds = Wide(calc.frames \div calc.sample_rate)
       /\ calc.time.super_frames
             = Wide((calc.frames % calc.sample_rate)
                       * (SUPER_UNITS \div calc.sample_rate))
       /\ WideLess(calc.time.super_frames, Wide(SUPER_UNITS))

(***************************************************************************)
(* MusicalTime and SuperFrames arithmetic.  Both are a pair of u32's, the  *)
(* whole units (beats, seconds) in `coarse` and the super-units in `fine`, *)
(* and their checked_sub, PartialOrd and Add are the same code over the    *)
(* two field names.  u32 values are wide naturals.                         *)
(***************************************************************************)
\* u32 arithmetic: the wrapped value, and whether it overflowed.
U32Sub(x, y) ==
    [ value |-> IF WideLess(x, y) THEN WideSub(<<0, 0, 2^8>>, WideSub(y, x))
                ELSE WideSub(x, y),
      overflow |-> WideLess(x, y) ]

U32Add(x, y) ==
    [ value |-> AsU32(WideAdd(x, y, 0)),
      overflow |-> WideLess(U32_MAX, WideAdd(x, y, 0)) ]

\* MusicalTime::new and SuperFrames::new, as wide naturals.
TimeNew(coarse, fine) ==
    [ coarse |-> Wide(MusicalTime_new(coarse, fine).coarse),
      fine |-> Wide(MusicalTime_new(coarse, fine).fine) ]

\* self >= rhs by partial_cmp.
partial_cmp_ge(self, rhs) ==
    IF self.coarse # rhs.coarse THEN WideLess(rhs.coarse, self.coarse)
    ELSE ~WideLess(self.fine, rhs.fine)

\* checked_sub without the borrow from the whole units.
checked_sub_no_borrow(self, rhs, build) ==
    IF partial_cmp_ge(self, rhs)
    THEN LET beats == U32Sub(self.coarse, rhs.coarse)
             lower == WideLess(self.fine, rhs.fine)
             back  == U32Sub(rhs.fine, self.fine)
             super_beats == IF lower THEN U32Sub(Wide(SUPER_UNITS), back.value)
                            ELSE U32Sub(self.fine, rhs.fine)
         IN  [ some |-> TRUE,
               time |-> [coarse |-> beats.value, fine |-> super_beats.value],
               panics |-> build = "debug"
                          /\ (beats.overflow \/ super_beats.overflow) ]
    ELSE [some |-> FALSE, time |-> self, panics |-> FALSE]

checked_sub(self, rhs, build) ==
    IF partial_cmp_ge(self, rhs)
    THEN LET beats == U32Sub(self.coarse, rhs.coarse)
             lower == WideLess(self.fine, rhs.fine)
             borrowed == U32Sub(beats.value, <<1>>)
             back  == U32Sub(rhs.fine, self.fine)
             super_beats == IF lower THEN U32Sub(Wide(SUPER_UNITS), back.value)
                            ELSE U32Sub(self.fine, rhs.fine)
         IN  [ some |-> TRUE,
               time |-> [coarse |-> IF lower THEN borrowed.value ELSE beats.value,
                         fine |-> super_beats.value],
               panics |-> build = "debug"
                          /\ (\/ beats.overflow
                              \/ lower /\ borrowed.overflow
                              \/ super_beats.overflow) ]
    ELSE [some |-> FALSE, time |-> self, panics |-> FALSE]

MusicalTime_add(self, rhs, build) ==
    LET beats == U32Add(self.coarse, rhs.coarse)
        super_beats == U32Add(self.fine, rhs.fine)
        carry == ~WideLess(super_beats.value, Wide(SUPER_UNITS))
        carried == U32Add(beats.value, <<1>>)
    IN  [ time |-> [coarse |-> IF carry THEN carried.value ELSE beats.value,
                    fine |-> IF carry
                             THEN U32Sub(super_beats.value, Wide(SUPER_UNITS)).value
                             ELSE super_beats.value],
          panics |-> build = "debug"
                     /\ (\/ beats.overflow
                         \/ super_beats.overflow
                         \/ carry /\ carried.overflow) ]

SuperFrames_checked_sub(self, rhs, build) == checked_sub(self, rhs, build)

SuperFrames_add(self, rhs, build) == MusicalTime_add(self, rhs, build)

SubKinds == {"MusicalTime", "SuperFrames"}

\* Operands of checked_sub, as the arguments given to new().
SubCoarse == {0, 1, 2, 5}

SubFine == {0, 1, SUPER_UNITS \div 2, SUPER_UNITS - 1, SUPER_UNITS + 7}

SubInit ==
    /\ \E kind \in SubKinds, build \in Builds :
       \E ac \in SubCoarse, af \in SubFine, bc \in SubCoarse, bf \in SubFine :
          calc = [fn |-> "new", kind |-> kind, build |-> build,
                  a |-> MusicalTime_new(ac, af), b |-> MusicalTime_new(bc, bf)]
    /\ Idle

SubCheckedSub ==
    /\ calc.fn = "new"
    /\ calc' = [fn |-> "checked_sub", kind |-> calc.kind, build |-> calc.build,
                a |-> calc.a, b |-> calc.b,
                c |-> IF calc.kind = "MusicalTime"
                      THEN checked_sub(TimeNew(calc.a.coarse, calc.a.fine),
                                       TimeNew(calc.b.coarse, calc.b.fine),
                                       calc.build)
                      ELSE SuperFrames_checked_sub(
                               TimeNew(calc.a.coarse, calc.a.fine),
                               TimeNew(calc.b.coarse, calc.b.fine), calc.build)]
    /\ UNCHANGED idleVars

SubAddBack ==
    /\ calc.fn = "checked_sub"
    /\ calc.c.some
    /\ ~calc.c.panics
    /\ calc' = [fn |-> "add", kind |-> calc.kind, build |-> calc.build,
                a |-> calc.a, b |-> calc.b, c |-> calc.c,
                sum |-> IF calc.kind = "MusicalTime"
                        THEN MusicalTime_add(calc.c.time,
                                             TimeNew(calc.b.coarse, calc.b.fine),
                                             calc.build)
                        ELSE SuperFrames_add(calc.c.time,
                                             TimeNew(calc.b.coarse, calc.b.fine),
                                             calc.build)]
    /\ UNCHANGED idleVars

SubNext ==
    \/ SubCheckedSub
    \/ SubAddBack

SpecSub == SubInit /\ [][SubNext]_vars

\* b greater than a in (coarse, fine) order.
Exceeds(b, a) ==
    b.coarse > a.coarse \/ (b.coarse = a.coarse /\ b.fine > a.fine)

\* C13: for operands with super-units below SUPER_UNITS, a.checked_sub(b) is
\* None exactly when b exceeds a in (coarse, fine) order; otherwise it is
\* Some(c) with c's super-units below SUPER_UNITS, with one coarse unit
\* borrowed when a's super-units are the smaller, and c + b = a.  Nothing
\* panics or wraps.
C13_CheckedSub ==
    calc.fn \in {"checked_sub", "add"}
    => /\ ~calc.c.panics
       /\ calc.c.some <=> ~Exceeds(calc.b, calc.a)
       /\ calc.c.some =>
             /\ WideLess(calc.c.time.fine, Wide(SUPER_UNITS))
             /\ calc.c.time.coarse
                   = Wide(calc.a.coarse - calc.b.coarse
                             - (IF calc.a.fine < calc.b.fine THEN 1 ELSE 0))
       /\ calc.fn = "add" =>
             /\ ~calc.sum.panics
             /\ calc.sum.time = TimeNew(calc.a.coarse, calc.a.fine)

C13_Witness ==
    /\ calc.fn = "add"
    /\ calc.kind = "MusicalTime"
    /\ calc.a = MusicalTime_new(5, 1)
    /\ calc.b = MusicalTime_new(2, SUPER_UNITS - 1)
    /\ calc.c.time = TimeNew(2, 2)

C13_WitnessNone ==
    /\ calc.fn = "checked_sub"
    /\ calc.a = MusicalTime_new(0, 0)
    /\ calc.b = MusicalTime_new(0, 1)
    /\ ~calc.c.some

(***************************************************************************)
(* MusicalTime: constructors, Mul<u32>, snapping and fractional beats.     *)
(* Every operation returns [time, panics]; a division by zero panics in    *)
(* every build, an integer overflow in the debug build only.  The          *)
(* operations read the fields of times built by new(), which are below     *)
(* 2^31.                                                                   *)
(***************************************************************************)
U32Mul(x, y) ==
    [ value |-> AsU32(WideMul(x, y)),
      overflow |-> WideLess(U32_MAX, WideMul(x, y)) ]

\* w % SUPER_UNITS on u64, SUPER_UNITS being 20160 * 25200.
ModSuperUnits(w) ==
    LET low  == WideDivRem(w, 20160)
        high == WideDivRem(low.q, SUPER_UNITS \div 20160)
    IN  high.r * 20160 + low.r

MusicalTime_from_beats(beats) ==
    [time |-> [coarse |-> Wide(beats), fine |-> << >>], panics |-> FALSE]

\* from_half_beats .. from_24th_beats, N being the constant of each.
MusicalTime_from_fraction_beats(N, beats, fraction_beats) ==
    [ time |-> [coarse |-> Wide(beats),
                fine |-> Wide(Min(fraction_beats, N - 1) * (SUPER_UNITS \div N))],
      panics |-> FALSE ]

F64Floor(x) ==
    IF x.e >= 0 THEN WideShl(x.m, x.e) ELSE WideShr(x.m, 0 - x.e).q

F64Fract(x) ==
    IF x.e >= 0 THEN [m |-> << >>, e |-> 0]
    ELSE [m |-> WideSub(x.m, WideShl(F64Floor(x), 0 - x.e)), e |-> x.e]

\* beats is an f64 [m, e] with its sign in neg.
MusicalTime_from_beats_f64(beats) ==
    IF F64Positive(beats) /\ ~beats.neg
    THEN [ time |-> [coarse |-> F64AsU32(F64Floor(beats)),
                     fine |-> F64AsU32(F64RoundToU64(
                                  F64Mul(F64Fract(beats),
                                         F64FromWide(Wide(SUPER_UNITS)))))],
           panics |-> FALSE ]
    ELSE [time |-> [coarse |-> << >>, fine |-> << >>], panics |-> FALSE]

MusicalTime_mul(self, rhs, build) ==
    LET beats == U32Mul(self.coarse, Wide(rhs))
        super_beats_u64 == WideMul(self.fine, Wide(rhs))
        wraps == ~WideLess(super_beats_u64, Wide(SUPER_UNITS))
        additional_beats == Wide(ModSuperUnits(super_beats_u64))
        more == U32Add(beats.value, AsU32(additional_beats))
        taken == WideMul(additional_beats, Wide(SUPER_UNITS))
    IN  IF wraps
        THEN [ time |-> [coarse |-> more.value,
                         fine |-> AsU32(U64WrappingSub(super_beats_u64, taken))],
               panics |-> build = "debug"
                          /\ (\/ beats.overflow
                              \/ more.overflow
                              \/ WideLess(super_beats_u64, taken)) ]
        ELSE [ time |-> [coarse |-> beats.value, fine |-> AsU32(super_beats_u64)],
               panics |-> build = "debug" /\ beats.overflow ]

snap_to_nearest_beat(self, build) ==
    LET next == U32Add(self.coarse, <<1>>)
        up   == ~WideLess(self.fine, Wide(SUPER_UNITS \div 2))
    IN  [ time |-> [coarse |-> IF up THEN next.value ELSE self.coarse,
                    fine |-> << >>],
          panics |-> build = "debug" /\ up /\ next.overflow ]

snap_to_nearest_whole_beats(self, beats, build) ==
    LET nearest_beat == snap_to_nearest_beat(self, build)
        nearest == Narrow(nearest_beat.time.coarse)
        new_beats == U32Mul(Wide(nearest % beats), Wide(beats))
        distance == U32Sub(nearest_beat.time.coarse, new_beats.value)
        far == ~WideLess(distance.value, Wide(beats \div 2))
        moved == U32Add(new_beats.value, Wide(beats \div 2))
    IN  IF beats = 0 \/ nearest_beat.panics
        THEN [time |-> nearest_beat.time, panics |-> TRUE]
        ELSE [ time |-> [coarse |-> IF far THEN moved.value ELSE new_beats.value,
                         fine |-> << >>],
               panics |-> build = "debug"
                          /\ (\/ new_beats.overflow
                              \/ distance.overflow
                              \/ far /\ moved.overflow) ]

snap_to_nearest_fractional_beat(DIVISOR, self, build) ==
    LET unit == SUPER_UNITS \div DIVISOR
        super_beats == U32Mul(Wide(Narrow(self.fine) % unit), Wide(unit))
        distance == U32Sub(self.fine, super_beats.value)
        far == ~WideLess(distance.value, Wide(unit \div 2))
        moved == U32Add(super_beats.value, Wide(unit))
        snapped == IF far THEN moved.value ELSE super_beats.value
        carry == ~WideLess(snapped, Wide(SUPER_UNITS))
        next == U32Add(self.coarse, <<1>>)
    IN  [ time |-> [coarse |-> IF carry THEN next.value ELSE self.coarse,
                    fine |-> IF carry THEN << >> ELSE snapped],
          panics |-> build = "debug"
                     /\ (\/ super_beats.overflow
                         \/ distance.overflow
                         \/ far /\ moved.overflow
                         \/ carry /\ next.overflow) ]

num_fractional_beats(DIVISOR, self) ==
    Narrow(self.fine) % (SUPER_UNITS \div DIVISOR)

\* The constants of from_half_beats .. from_24th_beats and of the
\* snap_to_nearest_* and num_* wrappers.
Divisors == {2, 3, 4, 5, 6, 7, 8, 9, 10, 12, 16, 24, 32, 64, 128}

MusicalBeats == {0, 1, 5, 7}

MusicalSuperBeats ==
    {0, 1, SUPER_UNITS \div 3, SUPER_UNITS \div 2, SUPER_UNITS - 1, SUPER_UNITS + 7}

Multipliers == 0..4

\* f64 beats: -1.5, 0.0, 0.5, 2.75 and 3 + (1 - 2^-40).
BeatsF64 ==
    { [m |-> Wide(3), e |-> 0 - 1, neg |-> TRUE],
      [m |-> << >>, e |-> 0, neg |-> FALSE],
      [m |-> Wide(1), e |-> 0 - 1, neg |-> FALSE],
      [m |-> Wide(11), e |-> 0 - 2, neg |-> FALSE],
      [m |-> WideSub(WideShl(<<1>>, 42), <<1>>), e |-> 0 - 40, neg |-> FALSE] }

\* The operand: MusicalTime::new(beats, super_beats).
MusicalInit ==
    /\ \E beats \in MusicalBeats, super_beats \in MusicalSuperBeats,
          build \in Builds :
          calc = [fn |-> "input", build |-> build, beats |-> beats,
                  super_beats |-> super_beats]
    /\ Idle

Operand == TimeNew(calc.beats, calc.super_beats)

\* The state after an operation: its name, its argument and what it returned.
Returned(fn, arg, out) ==
    /\ calc.fn = "input"
    /\ calc' = [fn |-> fn, build |-> calc.build, beats |-> calc.beats,
                super_beats |-> calc.super_beats, arg |-> arg,
                time |-> out.time, returned |-> ~out.panics]
    /\ UNCHANGED idleVars

MusicalNew ==
    Returned("new", 0, [time |-> Operand, panics |-> FALSE])

MusicalFromBeats ==
    Returned("from_beats", 0, MusicalTime_from_beats(calc.beats))

MusicalFromFractionBeats ==
    \E N \in Divisors : \E fraction_beats \in {0, 1, N - 1, N, N + 5} :
       Returned("from_fraction_beats", N,
                MusicalTime_from_fraction_beats(N, calc.beats, fraction_beats))

MusicalFromBeatsF64 ==
    \E beats \in BeatsF64 :
       Returned("from_beats_f64", beats, MusicalTime_from_beats_f64(beats))

MusicalAdd ==
    \E beats \in MusicalBeats, super_beats \in MusicalSuperBeats :
       Returned("add", MusicalTime_new(beats, super_beats),
                MusicalTime_add(Operand, TimeNew(beats, super_beats), calc.build))

MusicalMul ==
    \E rhs \in Multipliers :
       Returned("mul", rhs, MusicalTime_mul(Operand, rhs, calc.build))

MusicalCheckedSub ==
    \E beats \in MusicalBeats, super_beats \in MusicalSuperBeats :
       LET c == checked_sub(Operand, TimeNew(beats, super_beats), calc.build)
       IN  Returned("checked_sub", MusicalTime_new(beats, super_beats),
                    [time |-> c.time, panics |-> c.panics \/ ~c.some])

MusicalSnapToNearestBeat ==
    Returned("snap_to_nearest_beat", 0, snap_to_nearest_beat(Operand, calc.build))

MusicalSnapToNearestWholeBeats ==
    \E beats \in Multipliers :
       Returned("snap_to_nearest_whole_beats", beats,
                snap_to_nearest_whole_beats(Operand, beats, calc.build))

MusicalSnapToNearestFractionalBeat ==
    \E DIVISOR \in Divisors :
       Returned("snap_to_nearest_fractional_beat", DIVISOR,
                snap_to_nearest_fractional_beat(DIVISOR, Operand, calc.build))

MusicalNumFractionalBeats ==
    \E DIVISOR \in Divisors :
       /\ calc.fn = "input"
       /\ calc' = [fn |-> "num_fractional_beats", build |-> calc.build,
                   beats |-> calc.beats, super_beats |-> calc.super_beats,
                   arg |-> DIVISOR,
                   value |-> num_fractional_beats(DIVISOR, Operand)]
       /\ UNCHANGED idleVars

MusicalNext ==
    \/ MusicalNew
    \/ MusicalFromBeats
    \/ MusicalFromFractionBeats
    \/ MusicalFromBeatsF64
    \/ MusicalAdd
    \/ MusicalMul
    \/ MusicalCheckedSub
    \/ MusicalSnapToNearestBeat
    \/ MusicalSnapToNearestWholeBeats
    \/ MusicalSnapToNearestFractionalBeat
    \/ MusicalNumFractionalBeats

SpecMusical == MusicalInit /\ [][MusicalNext]_vars

MusicalTimeOps ==
    {"new", "from_beats", "from_fraction_beats", "from_beats_f64", "add", "mul",
     "checked_sub", "snap_to_nearest_beat", "snap_to_nearest_whole_beats",
     "snap_to_nearest_fractional_beat"}

\* C14: every MusicalTime returned by a public constructor or operation on
\* operands built by new() has super_beats in [0, SUPER_UNITS).
C14_SuperBeatsInRange ==
    (calc.fn \in MusicalTimeOps /\ calc.returned)
    => WideLess(calc.time.fine, Wide(SUPER_UNITS))

\* C18: num_fractional_beats::<DIVISOR>() is the floor of
\* super_beats / (SUPER_UNITS / DIVISOR), a number in [0, DIVISOR - 1].
C18_NumFractionalBeats ==
    calc.fn = "num_fractional_beats"
    => /\ calc.value = Narrow(Operand.fine) \div (SUPER_UNITS \div calc.arg)
       /\ calc.value \in 0..(calc.arg - 1)

\* How far the whole beat m lies from the operand, in (beats, super-beats).
Distance(m) ==
    LET self == MusicalTime_new(calc.beats, calc.super_beats)
    IN  IF m <= self.coarse THEN <<self.coarse - m, self.fine>>
        ELSE IF self.fine = 0 THEN <<m - self.coarse, 0>>
        ELSE <<m - self.coarse - 1, SUPER_UNITS - self.fine>>

Closer(d1, d2) == d1[1] < d2[1] \/ (d1[1] = d2[1] /\ d1[2] < d2[2])

\* C19: snap_to_nearest_whole_beats(n), n >= 1, returns a time with
\* super_beats = 0 whose beats are a multiple of n, no other multiple of n
\* lying strictly closer to the operand.
C19_SnapToNearestWholeBeats ==
    (calc.fn = "snap_to_nearest_whole_beats" /\ calc.arg >= 1)
    => /\ calc.returned
       /\ calc.time.fine = << >>
       /\ Narrow(calc.time.coarse) % calc.arg = 0
       /\ \A k \in 0..(calc.beats + 2) :
             ~Closer(Distance(k * calc.arg), Distance(Narrow(calc.time.coarse)))

\* A time as a whole number of super-beats: beats * SUPER_UNITS + super_beats.
TotalSuperBeats(time) ==
    WideAdd(WideMul(time.coarse, Wide(SUPER_UNITS)), time.fine, 0)

\* t + t + ... + t, n times, by Add.
RECURSIVE AddedTimes(_, _)
AddedTimes(t, n) ==
    IF n = 0 THEN TimeNew(0, 0)
    ELSE MusicalTime_add(AddedTimes(t, n - 1), t, "release").time

\* C29: for every MusicalTime t and u32 n whose product fits, t * n returns,
\* without overflow or underflow, exactly n times t:
\* beats * SUPER_UNITS + super_beats of the result is n times that of t, and
\* the result is the time that adding t n times gives.
C29_MulIsRepeatedAdd ==
    calc.fn = "mul"
    => /\ calc.returned
       /\ TotalSuperBeats(calc.time)
             = WideMul(Wide(calc.arg), TotalSuperBeats(Operand))
       /\ calc.time = AddedTimes(Operand, calc.arg)

\* C30: for every t and every DIVISOR of the wrappers,
\* snap_to_nearest_fractional_beat::<DIVISOR>() returns, without overflow or
\* underflow, a time whose super_beats is a multiple of SUPER_UNITS / DIVISOR
\* below SUPER_UNITS (a snap up to the next beat carries into beats) and
\* that lies at most half of SUPER_UNITS / DIVISOR from t.
C30_SnapToNearestFractionalBeat ==
    calc.fn = "snap_to_nearest_fractional_beat"
    => LET unit == SUPER_UNITS \div calc.arg
           to   == TotalSuperBeats(calc.time)
           from == TotalSuperBeats(Operand)
           d    == IF WideLess(to, from) THEN WideSub(from, to)
                   ELSE WideSub(to, from)
       IN  /\ calc.returned
           /\ \E k \in 0 .. (calc.arg - 1) : calc.time.fine = Wide(k * unit)
           /\ ~WideLess(Wide(unit), WideAdd(d, d, 0))

(***************************************************************************)
(* The constructors of ProcFrames (time.rs) and SampleRate                 *)
(* (time/sample_rate.rs).  A rate is a whole number of hertz or one of     *)
(* NAN, INFINITY and NEG_INFINITY; widening an integer or an f32 to f64    *)
(* keeps the value.                                                        *)
(***************************************************************************)
ProcFrames_default == 0

unchecked_frames(pf) == pf

SampleRate_new(sample_rate) ==
    [ value |-> sample_rate,
      panics |-> ~(sample_rate # NAN /\ sample_rate > 0) ]

SampleRate_default == 44100

SampleRate_from(sr) == [value |-> sr, panics |-> FALSE]

U8Inputs == 0..(MAX_BLOCKSIZE + 3) \cup {2^8 - 1}

U16Inputs == U8Inputs \cup {2^8, 44100, 2^16 - 1}

U32Inputs == U16Inputs \cup {2^16, 192000, 2147483647}

F64Inputs ==
    {0 - 44100, 0 - 1, 0, 1, 44100, 192000, NAN, INFINITY, NEG_INFINITY}

ConstructInit ==
    /\ calc = [fn |-> "start"]
    /\ Idle

Built(type, by, arg, value, panics) ==
    /\ calc.fn = "start"
    /\ calc' = [fn |-> type, by |-> by, arg |-> arg, value |-> value,
                panics |-> panics]
    /\ UNCHANGED idleVars

ProcFramesNew ==
    \E frames \in U32Inputs :
       Built("ProcFrames", "new", frames, ProcFrames_new(frames), FALSE)

ProcFramesDefault ==
    Built("ProcFrames", "default", 0, ProcFrames_default, FALSE)

ProcFramesFromU8 ==
    \E s \in U8Inputs :
       Built("ProcFrames", "From<u8>", s, ProcFrames_from(s), FALSE)

ProcFramesFromU16 ==
    \E s \in U16Inputs :
       Built("ProcFrames", "From<u16>", s, ProcFrames_from(s), FALSE)

ProcFramesFromUsize ==
    \E s \in U32Inputs :
       Built("ProcFrames", "From<usize>", s, ProcFrames_from(s), FALSE)

ProcFramesUncheckedFrames ==
    /\ calc.fn = "ProcFrames"
    /\ calc' = [fn |-> "unchecked_frames", by |-> calc.by, arg |-> calc.arg,
                value |-> calc.value, out |-> unchecked_frames(calc.value)]
    /\ UNCHANGED idleVars

ProcFramesCompilerHintFrames ==
    /\ calc.fn = "ProcFrames"
    /\ calc' = [fn |-> "compiler_hint_frames", by |-> calc.by, arg |-> calc.arg,
                value |-> calc.value, out |-> compiler_hint_frames(calc.value)]
    /\ UNCHANGED idleVars

SampleRateNew ==
    \E sample_rate \in F64Inputs :
       Built("SampleRate", "new", sample_rate,
                   SampleRate_new(sample_rate).value,
                   SampleRate_new(sample_rate).panics)

SampleRateDefault ==
    Built("SampleRate", "default", 0, SampleRate_default, FALSE)

SampleRateFromU16 ==
    \E sr \in U16Inputs :
       Built("SampleRate", "From<u16>", sr, SampleRate_from(sr).value, FALSE)

SampleRateFromU32 ==
    \E sr \in U32Inputs :
       Built("SampleRate", "From<u32>", sr, SampleRate_from(sr).value, FALSE)

SampleRateFromF32 ==
    \E sr \in F64Inputs :
       Built("SampleRate", "From<f32>", sr, SampleRate_from(sr).value, FALSE)

SampleRateFromF64 ==
    \E sr \in F64Inputs :
       Built("SampleRate", "From<f64>", sr, SampleRate_from(sr).value, FALSE)

ConstructNext ==
    \/ ProcFramesNew
    \/ ProcFramesDefault
    \/ ProcFramesFromU8
    \/ ProcFramesFromU16
    \/ ProcFramesFromUsize
    \/ ProcFramesUncheckedFrames
    \/ ProcFramesCompilerHintFrames
    \/ SampleRateNew
    \/ SampleRateDefault
    \/ SampleRateFromU16
    \/ SampleRateFromU32
    \/ SampleRateFromF32
    \/ SampleRateFromF64

SpecConstruct == ConstructInit /\ [][ConstructNext]_vars

\* C16: every ProcFrames built by new, default or a From conversion holds a
\* count in [0, MAX_BLOCKSIZE], and unchecked_frames() never returns more.
C16_ProcFramesInRange ==
    /\ calc.fn = "ProcFrames" => calc.value \in 0..MAX_BLOCKSIZE
    /\ calc.fn = "unchecked_frames" => calc.out <= MAX_BLOCKSIZE

\* C17: SampleRate::new aborts on an argument that is not above zero, and
\* every SampleRate that new, default or a From conversion returns is
\* above zero.
C17_SampleRatePositive ==
    calc.fn = "SampleRate"
    => IF calc.by = "new" /\ ~(calc.arg # NAN /\ calc.arg > 0)
       THEN calc.panics
       ELSE ~calc.panics /\ calc.value # NAN /\ calc.value > 0

(***************************************************************************)
(* PcmResource::fill_channel_f32 (pcm/mod.rs), for the F32 and F64 sample  *)
(* types, whose conversions are in the function itself.  Samples count     *)
(* units of 2^-20; a buffer is a sequence, buf[i] of the code being        *)
(* buf[i + 1]; usize arithmetic wraps at 2^64 in the release build and     *)
(* panics in the debug build.                                              *)
(***************************************************************************)
MaxLenFrames == 3

MaxBufLen == 4

\* The sample stored at a position of a channel: an f64 that is not an f32
\* for the even positions.
Sample(channel, position) == 2^24 + 8 * channel + 2 * position + 1

PcmTypes == {"F32", "F64"}

\* The `as f32` of the F64 branch, and the plain copy of the F32 branch.
pcm_to_f32(pcm_type, sample) ==
    IF pcm_type = "F64" THEN RoundF32(sample, 1) ELSE sample

PcmResources ==
    { [ pcm_type |-> pcm_type, channels |-> channels, len_frames |-> len_frames,
        pcm |-> [c \in 1..channels |->
                   [i \in 1..len_frames |->
                      IF pcm_type = "F64" THEN Sample(c, i)
                      ELSE RoundF32(Sample(c, i), 1)]] ] :
      pcm_type \in PcmTypes, channels \in 1..2, len_frames \in 0..MaxLenFrames }

\* buf[from..to] = 0.0, the range being of the code (from included, to not).
Fill(buf, from, to) ==
    [i \in 1..Len(buf) |-> IF from < i /\ i <= to THEN 0 ELSE buf[i]]

\* buf[buf_start..buf_start + len] converted from
\* pcm[channel][pcm_start..pcm_start + len].
Copy(self, channel, buf, buf_start, pcm_start, len) ==
    [i \in 1..Len(buf) |->
        IF buf_start < i /\ i <= buf_start + len
        THEN pcm_to_f32(self.pcm_type,
                        self.pcm[channel + 1][pcm_start + (i - buf_start)])
        ELSE buf[i]]

fill_channel_f32(self, channel, frame, buf, build) ==
    LET len_frames == self.len_frames
        buf_len == Len(buf)
        skip_frames == 0 - frame
        new_buf_len == buf_len - skip_frames
        \* len_frames - new_buf_len below zero wraps, and so does the sum
        \* skip_frames + copy_frames: the sum is at 2^64 and above exactly
        \* when it is not negative here.
        wrapped == skip_frames + (len_frames - new_buf_len)
    IN  IF channel >= self.channels
        THEN [result |-> "Err", buf |-> Fill(buf, 0, buf_len), panics |-> FALSE]
        ELSE IF frame >= len_frames \/ frame + buf_len <= 0
        THEN [result |-> "Ok", buf |-> Fill(buf, 0, buf_len), panics |-> FALSE]
        ELSE IF frame < 0
        THEN IF new_buf_len <= len_frames
             THEN [ result |-> "Ok",
                    buf |-> Copy(self, channel, Fill(buf, 0, skip_frames),
                                 skip_frames, 0, new_buf_len),
                    panics |-> FALSE ]
             ELSE [ result |-> "none", buf |-> Fill(buf, 0, skip_frames),
                    panics |-> \/ build = "debug"
                               \/ wrapped < 0
                               \/ wrapped < skip_frames ]
        ELSE IF frame + buf_len <= len_frames
        THEN [ result |-> "Ok",
               buf |-> Copy(self, channel, buf, 0, frame, buf_len),
               panics |-> FALSE ]
        ELSE [ result |-> "Ok",
               buf |-> Copy(self, channel,
                            Fill(buf, len_frames - frame, buf_len),
                            0, frame, len_frames - frame),
               panics |-> FALSE ]

\* A buffer that holds something else than zeros and samples.
Stale(buf_len) == [i \in 1..buf_len |-> 0 - 1]

PcmInit ==
    /\ \E self \in PcmResources, build \in Builds :
          calc = [fn |-> "PcmResource", self |-> self, build |-> build]
    /\ Idle

PcmFillChannelF32 ==
    /\ calc.fn = "PcmResource"
    /\ \E channel \in 0..2, frame \in (0 - MaxBufLen - 1)..(MaxLenFrames + 1),
          buf_len \in 0..MaxBufLen :
          calc' = [fn |-> "fill_channel_f32", self |-> calc.self,
                   build |-> calc.build, channel |-> channel, frame |-> frame,
                   buf_len |-> buf_len,
                   out |-> fill_channel_f32(calc.self, channel, frame,
                                            Stale(buf_len), calc.build)]
    /\ UNCHANGED idleVars

PcmNext == PcmFillChannelF32

SpecPcm == PcmInit /\ [][PcmNext]_vars

\* C20: with channel < channels, fill_channel_f32 returns Ok for every start
\* frame and buffer length without panicking, and leaves in buf[i] the
\* converted sample of position frame + i where that position is inside
\* the resource and 0 elsewhere.
C20_FillChannel ==
    (calc.fn = "fill_channel_f32" /\ calc.channel < calc.self.channels)
    => /\ ~calc.out.panics
       /\ calc.out.result = "Ok"
       /\ \A i \in 0..(calc.buf_len - 1) :
             calc.out.buf[i + 1]
                = IF 0 <= calc.frame + i /\ calc.frame + i < calc.self.len_frames
                  THEN pcm_to_f32(calc.self.pcm_type,
                                  calc.self.pcm[calc.channel + 1][calc.frame + i + 1])
                  ELSE 0

(***************************************************************************)
(* The settling epsilon of SmoothF32 and SmoothF64 (smooth.rs), as exact    *)
(* binary fractions [m, e] = m * 2^e.                                      *)
(***************************************************************************)
\* The f32 nearest to 1 / recip, for recip > 1 not a power of two: the
\* quotient 2^k / recip with the k that gives it 24 significant bits,
\* rounded to nearest.
F32Reciprocal(recip) ==
    LET k == (MANTISSA_DIGITS - 1) + BitLen(recip)
        d == WideDivRem(WideShl(<<1>>, k), recip)
    IN  [m |-> IF 2 * d.r > recip THEN WideMulAdd(d.q, 1, 1) ELSE d.q,
         e |-> 0 - k]

\* const SETTLE: f32 = 0.00001f32.
SETTLE_F32 == F32Reciprocal(SETTLE_RECIP)

\* `x as f64` for an f32 x.
F32AsF64(x) == F64Round(x.m, x.e, FALSE)

\* x < y on f64, for x, y >= 0.
F64Less(x, y) ==
    LET e == Min(x.e, y.e)
    IN  WideLess(WideShl(x.m, x.e - e), WideShl(y.m, y.e - e))

\* The epsilon SmoothF32::update_status and SmoothF64::update_status pass to
\* update_status_with_epsilon.
SmoothF32_update_status_epsilon == SETTLE_F32

SmoothF64_update_status_epsilon == F32AsF64(SETTLE_F32)

\* |d| < epsilon for a difference of d units (one unit is 2^-20).
WithinEpsilon(d, epsilon) ==
    F64Less([m |-> Wide(Abs(d)), e |-> 0 - 20], epsilon)

\* C24: the settling epsilon of update_status() is 1e-4 on SmoothF32, and
\* a strictly smaller value on SmoothF64: a SmoothF32 whose first output
\* sample is less than 1e-4 from the target settles, one farther does not,
\* and the epsilon SmoothF64 passes is below the one SmoothF32 passes.
C24_Epsilon ==
    [][ last_op'.op = "update_status" /\ smoothed.status = "Active" =>
          /\ smoothed'.status =
                IF WithinEpsilon(F32Sub(smoothed.input, smoothed.output[0]),
                                 F32AsF64(F32Reciprocal(10^4)))
                THEN "Deactivating" ELSE "Active"
          /\ SmoothF32_update_status_epsilon = F32Reciprocal(10^4)
          /\ F64Less(SmoothF64_update_status_epsilon,
                     F32AsF64(SmoothF32_update_status_epsilon))
      ]_vars

====
